---- MODULE Spec2Model ----
(***************************************************************************)
(* deragabu-agent: cursor capture loop, cursor cache, broadcast fan-out,   *)
(* peer session (webrtc_server.rs) and clipboard mirror                    *)
(* (clipboard_sync/mod.rs).                                                *)
(*                                                                         *)
(* The handlers of the agent are the actions below.  Every action records  *)
(* in `last` which handler ran and what it wrote to the data channel.      *)
(* History variables (dataEpoch, hideEmitted, scn) are updated by          *)
(* observers that only read `last`; a specification turns on the          *)
(* observers its claims need and leaves the others constant.              *)
(*                                                                         *)
(*   Spec          Windows build: capture loop, cache, broadcast, one peer *)
(*   DataSpec      Spec with the CursorData history of the session         *)
(*   CaptureSpec   the capture loop of each of the three builds            *)
(*   ScenarioSpec  two peers, the cache-hit-across-clients scenario        *)
(*   ClipSpec      clipboard poll task and client clipboard push           *)
(*                                                                         *)
(* Peer sessions share no mutable state with each other (the cache and     *)
(* LAST_CURSOR_ID are only read by them), so Spec follows one session.     *)
(***************************************************************************)
EXTENDS Integers, Sequences, FiniteSets, TLC

(***************************************************************************)
(* Bounds of the model                                                     *)
(***************************************************************************)
\* distinct pixel contents the OS can show (cursor ids are hashes of these)
NumIds == 2
\* capacity of the cursor cache, scaled down from 50 (mod.rs:157)
CacheMax == 1
\* capacity of the broadcast channel, scaled down from 100 (webrtc_server.rs:78)
MaxBroadcast == 1
\* events the capture loop emits in the fan-out specification
MaxEmit == 3
\* /offer requests the server receives in the offer specification
MaxOffers == 3
\* windows.rs:33, 120 in the source
MAX_ANIM_FRAMES == 4
\* width and height of the monochrome cursors of the outline specification
MaskWidth == 2
MaskHeight == 2
\* number of clipboard events a sender task is followed through
MaxClipEvents == 3
\* number of cursor events and of DPR messages one client's handlers are followed through
MaxLockEvents == 2

\* Option::None for a cursor id (ids are 1..NumIds)
NoId == 0

\* OS cursor handles / serials / seeds: handle NumIds+1 has the pixels of handle 1
NumHandles == NumIds + 1

Clients == {"A", "B"}
Platforms == {"windows", "linux", "macos"}
Ids == 1..NumIds

\* the serial of the all-transparent cursor image on X11
BlankHandle == NumHandles + 1

\* handles the OS of a platform can show
OsHandles(p) == IF p = "linux" THEN 1..BlankHandle ELSE 1..NumHandles

\* pixel content behind an OS handle; NoId stands for an all-transparent image
PixelsOf(h) == IF h = BlankHandle THEN NoId ELSE ((h - 1) % NumIds) + 1

\* ClientState.dpr at creation, in thousandths (1000 = 1.0)
DefaultDpr == 1000
\* what parse_dpr_from_json can return for a text frame: Some(v) in
\* thousandths, or -1 for None
DprInputs == {-1, 0, 1000, 1010, 1020, 10500}
\* what str::parse::<f32> returns for "NaN"
NaN == -2
\* what it returns for "inf" or a number too large for f32
Infinity == 1000000 * DefaultDpr
\* the values parse_dpr_from_json can return, with the ends of the accepted
\* range, the values next to them, a negative ratio, NaN and infinity
DprValues == DprInputs \cup {NaN, Infinity, -1500, 1, 500, 10000, 10001}

VARIABLES
    platform,            \* build target: which capture_cursor is compiled in
    os,                  \* the OS cursor: [handle, visible, atEdge]
    LAST_CURSOR_HANDLE,  \* windows.rs:27
    LAST_CURSOR_SERIAL,  \* linux.rs:19
    LAST_CURSOR_SEED,    \* macos.rs:74
    LAST_CURSOR_ID,      \* mod.rs:55
    CURSOR_CACHE,        \* mod.rs:52, the set of cached ids
    session,             \* per client: "new", "dc", "running", "stopped"
    alive,               \* per client: the data channel transport is up
    rx_broadcast,        \* per client: broadcast receiver [q, lagged]
    client_state,        \* per client: ClientState [dpr, sent_cursor_ids]
    last,                \* the handler that just ran and what it wrote
    dataEpoch,           \* history: ids written as CursorData since the last DPR update
    hideEmitted,         \* history: CursorHidden emitted since the cursor was last seen visible
    scn,                 \* history: position in the two-client scenario, or the id last hidden
    hostClip,            \* the host clipboard
    LAST_SET_HASH,       \* clipboard_sync/mod.rs:36
    last_broadcast_hash, \* clipboard_sync/mod.rs:58
    pollPc,              \* clipboard poll task position
    pollRead,            \* what read_clipboard returned
    applyPc,             \* apply_to_clipboard position
    applyArg,            \* the hash apply_to_clipboard has yet to record
    clipLast,            \* the clipboard step just taken
    cacheEntries,        \* mod.rs:52, the CachedCursor stored under each cached id
    cacheCall,           \* the last call of cache_cursor: its argument and is_new
    broadcast_capacity,  \* webrtc_server.rs:78, the capacity of the broadcast channel
    emitSeq,             \* history: number of events the capture loop has emitted
    rxStamp,             \* history: per client, the emit numbers of the events in its receiver
    sentLast,            \* history: per client, the emit number of the event it was last sent a message for
    sentPrev,            \* history: per client, sentLast before that message
    peer_connections,    \* webrtc_server.rs:62, AppState._peer_connections (the client of each)
    task,                \* main.rs:75-97, per spawned task: how far it got
    main_pc,             \* main.rs: main is in its select! or has returned
    exit_code,           \* the exit status of the process
    main_logged,         \* main.rs:100-120, the task main logged an error for
    fnIn,                \* the argument of the function a function specification applies
    fnOut,               \* that call: [pc, val], val being what it has computed so far
    loops                \* per capture loop: it is running, its receiver exists

coreVars == <<platform, os, LAST_CURSOR_HANDLE, LAST_CURSOR_SERIAL, LAST_CURSOR_SEED,
              LAST_CURSOR_ID, CURSOR_CACHE, session, alive, rx_broadcast,
              client_state, last>>
histVars == <<dataEpoch, hideEmitted, scn>>
clipVars == <<hostClip, LAST_SET_HASH, last_broadcast_hash, pollPc, pollRead,
              applyPc, applyArg, clipLast>>
cacheVars == <<cacheEntries, cacheCall>>
\* the variables the cursor and clipboard specifications leave alone
orderVars == <<emitSeq, rxStamp, sentLast, sentPrev>>
mainVars == <<task, main_pc, exit_code, main_logged>>
fnVars == <<fnIn, fnOut>>
auxVars == <<cacheVars, orderVars, broadcast_capacity, peer_connections, mainVars, fnVars,
             loops>>
vars == <<coreVars, histVars, clipVars, auxVars>>

Abs(x) == IF x < 0 THEN -x ELSE x
Max(a, b) == IF a >= b THEN a ELSE b

\* an id taken from the OS handle instead of the pixels
CursorIdOfHandle(pixels) == os.handle

\* "cur_" ++ first 12 hex of blake3(rgba): blake3 is taken as collision free
\* on the pixel contents of the model, so the id names the pixel content
CursorIdOf(pixels) == pixels

(***************************************************************************)
(* Values                                                                  *)
(***************************************************************************)
NoEvent == [kind |-> "none", id |-> NoId]
CursorChanged(id) == [kind |-> "CursorChanged", id |-> id]
CursorHidden == [kind |-> "CursorHidden", id |-> NoId]

\* create_scaled_cursor_message: the CursorData for a cached id at a client dpr
CursorDataMsg(id, dpr) == [type |-> "CursorData", cursor_id |-> id, dpi_scale |-> dpr]
\* create_signal_message
SignalMsg(id) == [type |-> "CursorSignal", cursor_id |-> id, dpi_scale |-> 0]
\* create_hide_message
HideMsg == [type |-> "CursorHide", cursor_id |-> NoId, dpi_scale |-> 0]
\* create_heartbeat_message
HeartbeatMsg == [type |-> "Heartbeat", cursor_id |-> NoId, dpi_scale |-> 0]

\* op: the handler; c: its client; ev: the event handled or emitted;
\* tx: the messages handed to dc.send; ok: dc.send succeeded; res: outcome
Step(op, c, ev, tx, ok, res) ==
    [op |-> op, c |-> c, ev |-> ev, tx |-> tx, ok |-> ok, res |-> res]
\* label of a step that runs no handler of the agent
Idle == Step("idle", "-", NoEvent, <<>>, TRUE, "")

\* get_cached_cursor(id).is_some()
IsCached(id) == id \in CURSOR_CACHE

\* number of entries the trim removes: 25 of 51 in the source
CacheTrim == (CacheMax + 1) \div 2

\* cache_cursor without the trim of lines 157-163
CacheAfterInsertNoTrim(cache, id) == {cache \cup {id}}

\* cache_cursor: the caches the call can leave behind. An id already cached
\* leaves the cache alone; a new one is inserted and then, when the cache is
\* over capacity, the first CacheTrim keys of the map's iteration order are
\* removed (any keys: the order of a HashMap is arbitrary).
CacheAfterInsert(cache, id) ==
    IF id \in cache THEN {cache}
    ELSE LET grown == cache \cup {id} IN
         IF Cardinality(grown) > CacheMax
         THEN {grown \ E : E \in {S \in SUBSET grown : Cardinality(S) = CacheTrim}}
         ELSE {grown}

\* the OS reports the cursor hidden (X11: the cursor image is all transparent)
OsHidden == IF platform = "linux" THEN PixelsOf(os.handle) = NoId ELSE ~os.visible

(***************************************************************************)
(* Initial state                                                           *)
(***************************************************************************)
\* Option<String>::None for a content hash
NoHash == [k |-> "none", d |-> "", e |-> ""]

\* Ok(None) of read_clipboard
NoRead == [some |-> FALSE, hash |-> NoHash, origin |-> "host", quiet |-> TRUE]

ClipInitState ==
    /\ hostClip = [kind |-> "Text", data |-> "foo", origin |-> "host"]
    /\ LAST_SET_HASH = NoHash
    /\ last_broadcast_hash = NoHash
    /\ pollPc = "tick"
    /\ pollRead = NoRead
    /\ applyPc = "idle"
    /\ applyArg = NoHash
    /\ clipLast = [op |-> "init", emitted |-> FALSE, hash |-> NoHash,
                   origin |-> "host", quiet |-> TRUE]

CursorInitState ==
    /\ platform \in Platforms
    /\ os = [handle |-> 1, visible |-> TRUE, atEdge |-> FALSE]
    /\ LAST_CURSOR_HANDLE = 0
    /\ LAST_CURSOR_SERIAL = 0
    /\ LAST_CURSOR_SEED = -1
    /\ LAST_CURSOR_ID = NoId
    /\ CURSOR_CACHE = {}
    /\ session = [c \in Clients |-> "new"]
    /\ alive = [c \in Clients |-> TRUE]
    /\ rx_broadcast = [c \in Clients |-> [q |-> <<>>, lagged |-> FALSE]]
    /\ client_state = [c \in Clients |-> [dpr |-> DefaultDpr, sent_cursor_ids |-> {}]]
    /\ last = Idle
    /\ dataEpoch = [c \in Clients |-> {}]
    /\ hideEmitted = FALSE
    /\ scn = 0

\* no call of cache_cursor yet
NoCall == [cached |-> [id |-> NoId, webp_data |-> NoId, hotspot |-> NoId],
           is_new |-> FALSE, handle |-> NoId]

\* init_cache: an empty map
CacheInitState ==
    /\ cacheEntries = [id \in {} |-> NoCall.cached]
    /\ cacheCall = NoCall

OrderInitState ==
    /\ emitSeq = 0
    /\ rxStamp = [c \in Clients |-> <<>>]
    /\ sentLast = [c \in Clients |-> 0]
    /\ sentPrev = [c \in Clients |-> 0]

\* the tasks main spawns and waits for
Tasks == {"rtc", "capture", "clipboard", "sunshine"}

\* the exit status of a main that returns Ok(())
ExitSuccess == 0
\* the process has not exited
NoExit == ExitSuccess - 1

\* main has spawned its tasks and waits in select!; no offer was received
MainInitState ==
    /\ peer_connections = <<>>
    /\ task = [t \in Tasks |-> "running"]
    /\ main_pc = "select"
    /\ exit_code = NoExit
    /\ main_logged = "-"

\* the state of the agent after construction but for the capacity of the
\* broadcast channel
\* the loops that feed a channel of main.rs
CaptureLoops == {"cursor", "clipboard"}

\* both loops run and main's forwarding tasks hold their receivers
LoopInitState == loops = [l \in CaptureLoops |-> [running |-> TRUE, rx_open |-> TRUE]]

AgentInitState ==
    /\ CursorInitState /\ ClipInitState /\ CacheInitState /\ OrderInitState
    /\ MainInitState /\ LoopInitState

\* no function is being applied
NoCallOut == [pc |-> "idle", val |-> NoId]

InitState ==
    /\ AgentInitState
    /\ fnIn = NoId
    /\ fnOut = NoCallOut

\* the initial states of a specification that applies one function to each of
\* the given arguments, in an agent that is otherwise at rest
FnInit(inputs) ==
    /\ AgentInitState
    /\ platform = "windows"
    /\ broadcast_capacity = MaxBroadcast
    /\ fnIn \in inputs
    /\ fnOut = NoCallOut

\* a step of such a specification leaves the agent alone
FnFrame ==
    UNCHANGED <<coreVars, histVars, clipVars, cacheVars, orderVars, broadcast_capacity,
                peer_connections, mainVars, fnIn, loops>>

Init == InitState /\ broadcast_capacity = MaxBroadcast

(***************************************************************************)
(* The OS cursor (environment)                                             *)
(***************************************************************************)
captureState == <<LAST_CURSOR_HANDLE, LAST_CURSOR_SERIAL, LAST_CURSOR_SEED,
                  LAST_CURSOR_ID, CURSOR_CACHE>>
sessState == <<session, alive, client_state>>

\* the OS switches to cursor handle h
OsSetCursorTo(h) ==
    /\ h # os.handle
    /\ os' = [os EXCEPT !.handle = h]
    /\ last' = Idle
    /\ UNCHANGED <<platform, captureState, rx_broadcast, sessState>>

OsSetCursor == \E h \in OsHandles(platform) : OsSetCursorTo(h)

\* an application hides or shows the cursor (CURSOR_SHOWING / CGCursorIsVisible)
OsToggleVisible ==
    /\ platform # "linux"
    /\ os' = [os EXCEPT !.visible = ~os.visible]
    /\ last' = Idle
    /\ UNCHANGED <<platform, captureState, rx_broadcast, sessState>>

\* the pointer moves onto or off the edge of the virtual screen
OsToggleEdge ==
    /\ platform = "windows"
    /\ os' = [os EXCEPT !.atEdge = ~os.atEdge]
    /\ last' = Idle
    /\ UNCHANGED <<platform, captureState, rx_broadcast, sessState>>

(***************************************************************************)
(* Broadcast fan-out: main.rs forwards each capture event into the agent   *)
(* channel and run_webrtc_server's task sends it on the broadcast channel. *)
(* The forwarding hops keep the order of the events and are folded into    *)
(* the capture tick that produced the event.                               *)
(***************************************************************************)
\* a channel that hands out the newest event first and never drops one
PushFront(rx, ev) == [rx EXCEPT !.q = <<ev>> \o @]

\* a bounded queue that refuses the event when the receiver is behind
PushDropNewest(rx, ev) ==
    IF Len(rx.q) < broadcast_capacity THEN [rx EXCEPT !.q = Append(@, ev)] ELSE rx

\* broadcast::Sender::send as one receiver sees it: a receiver that is
\* broadcast_capacity events behind loses its oldest event and is marked lagged
Push(rx, ev) ==
    IF Len(rx.q) < broadcast_capacity
    THEN [rx EXCEPT !.q = Append(@, ev)]
    ELSE [q |-> Append(Tail(rx.q), ev), lagged |-> TRUE]

\* a receiver exists from on_data_channel until the sender task ends
Subscribed(c) == session[c] \in {"dc", "running"}

EmptyRx == [q |-> <<>>, lagged |-> FALSE]

\* tx.send(event) in run_cursor_capture, forwarded to every subscribed receiver
Broadcast(ev) ==
    rx_broadcast' = [c \in Clients |->
        IF Subscribed(c) THEN Push(rx_broadcast[c], ev) ELSE rx_broadcast[c]]

(***************************************************************************)
(* Capture loop: one action per platform's capture_cursor, called by       *)
(* run_cursor_capture every 16 ms; the event it returns is broadcast.      *)
(***************************************************************************)
TickStep(ev, res) == Step("tick", "-", ev, <<>>, TRUE, res)

\* a tick that sends the recorded cursor again when it has nothing to report
TickResend(res) ==
    /\ last' = TickStep(CursorChanged(LAST_CURSOR_ID), res)
    /\ Broadcast(CursorChanged(LAST_CURSOR_ID))
    /\ UNCHANGED captureState

\* the tick returns Ok(None) or Err without touching the shared state
TickNothing(res) ==
    /\ last' = TickStep(NoEvent, res)
    /\ UNCHANGED <<captureState, rx_broadcast>>

\* cache_cursor(cached) followed by the send of CursorChanged(cursor_id)
CacheAndEmit(id) ==
    /\ LAST_CURSOR_ID' = id
    /\ CURSOR_CACHE' \in CacheAfterInsert(CURSOR_CACHE, id)
    /\ Broadcast(CursorChanged(id))
    /\ last' = TickStep(CursorChanged(id), "captured")

\* the full capture returned Err: the tick logs a warning and emits nothing
CaptureFailed ==
    /\ last' = TickStep(NoEvent, "capture_failed")
    /\ UNCHANGED <<LAST_CURSOR_ID, CURSOR_CACHE, rx_broadcast>>

\* CursorHidden is returned while LAST_CURSOR_ID keeps the hidden cursor
EmitHiddenKeepsId ==
    /\ Broadcast(CursorHidden)
    /\ last' = TickStep(CursorHidden, "hidden")
    /\ UNCHANGED <<LAST_CURSOR_ID, CURSOR_CACHE>>

\* CursorHidden is returned and LAST_CURSOR_ID cleared
EmitHidden ==
    /\ LAST_CURSOR_ID' = NoId
    /\ Broadcast(CursorHidden)
    /\ last' = TickStep(CursorHidden, "hidden")
    /\ UNCHANGED CURSOR_CACHE

\* windows.rs: a genuine hide is reported when a cursor handle is on record
HideIsNewWindowsAlways == TRUE
HideIsNewWindows == LAST_CURSOR_HANDLE # 0

\* a hide that leaves the handle on record
HandleKeptAfterHide(h) == h

\* windows.rs, genuine hide: *last = 0
HandleAfterHide(h) == 0

\* windows.rs capture_cursor
CaptureCursorWindows ==
    /\ platform = "windows"
    /\ \E infoOk \in BOOLEAN :
        IF ~infoOk THEN
            \* GetCursorInfo failed
            TickNothing("info_failed")
        ELSE IF ~os.visible THEN
            IF os.atEdge THEN
                TickNothing("edge")
            ELSE IF HideIsNewWindows THEN
                /\ LAST_CURSOR_HANDLE' = HandleAfterHide(LAST_CURSOR_HANDLE)
                /\ EmitHidden
                /\ UNCHANGED <<LAST_CURSOR_SERIAL, LAST_CURSOR_SEED>>
            ELSE
                TickNothing("hidden_again")
        ELSE IF os.handle = LAST_CURSOR_HANDLE THEN
            TickNothing("same")
        ELSE
            /\ LAST_CURSOR_HANDLE' = os.handle
            /\ UNCHANGED <<LAST_CURSOR_SERIAL, LAST_CURSOR_SEED>>
            /\ \E captureOk \in BOOLEAN :
                IF captureOk THEN CacheAndEmit(CursorIdOf(PixelsOf(os.handle)))
                             ELSE CaptureFailed
    /\ UNCHANGED <<platform, os, sessState>>

\* linux.rs capture_cursor
CaptureCursorLinux ==
    /\ platform = "linux"
    /\ \E replyOk \in BOOLEAN :
        IF ~replyOk THEN
            \* XFixesGetCursorImage failed
            TickNothing("info_failed")
        ELSE IF os.handle = LAST_CURSOR_SERIAL THEN
            TickNothing("same")
        ELSE
            /\ LAST_CURSOR_SERIAL' = os.handle
            /\ UNCHANGED <<LAST_CURSOR_HANDLE, LAST_CURSOR_SEED>>
            /\ \E captureOk \in BOOLEAN :
                IF ~captureOk THEN
                    \* zero dimensions
                    CaptureFailed
                ELSE IF PixelsOf(os.handle) = NoId THEN
                    \* all pixels transparent
                    IF LAST_CURSOR_ID # NoId THEN
                        EmitHidden
                    ELSE
                        /\ last' = TickStep(NoEvent, "hidden_again")
                        /\ UNCHANGED <<LAST_CURSOR_ID, CURSOR_CACHE, rx_broadcast>>
                ELSE
                    CacheAndEmit(CursorIdOf(PixelsOf(os.handle)))
    /\ UNCHANGED <<platform, os, sessState>>

\* macos.rs capture_cursor
CaptureCursorMacos ==
    /\ platform = "macos"
    /\ IF ~os.visible THEN
            IF LAST_CURSOR_ID # NoId THEN
                /\ LAST_CURSOR_SEED' = -1
                /\ EmitHidden
                /\ UNCHANGED <<LAST_CURSOR_HANDLE, LAST_CURSOR_SERIAL>>
            ELSE
                TickNothing("hidden_again")
       ELSE IF os.handle = LAST_CURSOR_SEED THEN
            TickNothing("same")
       ELSE
            /\ LAST_CURSOR_SEED' = os.handle
            /\ UNCHANGED <<LAST_CURSOR_HANDLE, LAST_CURSOR_SERIAL>>
            /\ \E captureOk \in BOOLEAN :
                IF captureOk THEN CacheAndEmit(CursorIdOf(PixelsOf(os.handle)))
                             ELSE CaptureFailed
    /\ UNCHANGED <<platform, os, sessState>>

(***************************************************************************)
(* Peer session (webrtc_server.rs handle_offer)                            *)
(*   session[c]:  "new"      no data channel yet                           *)
(*                "dc"       on_data_channel ran: subscribed, state built  *)
(*                "running"  on_open ran: the sender task is looping       *)
(*                "stopped"  the sender task left its loop                 *)
(*   alive[c]:    the peer's transport is up; dc.send fails once it is not *)
(***************************************************************************)
\* result of dc.send for a list of frames: nothing to send cannot fail
SendOk(c, tx) == tx = <<>> \/ alive[c]

\* a peer connects (first connection, or a new one after the old one died)
\* and its data channel is announced: on_data_channel
OnDataChannel(c) ==
    /\ \/ session[c] = "new"
       \/ session[c] \in {"dc", "stopped"} /\ ~alive[c]
    /\ session' = [session EXCEPT ![c] = "dc"]
    /\ alive' = [alive EXCEPT ![c] = TRUE]
    /\ rx_broadcast' = [rx_broadcast EXCEPT ![c] = EmptyRx]
    /\ client_state' = [client_state EXCEPT
                          ![c] = [dpr |-> DefaultDpr, sent_cursor_ids |-> {}]]
    /\ last' = Step("connect", c, NoEvent, <<>>, TRUE, "")
    /\ UNCHANGED <<platform, os, captureState>>

\* frames the on_open callback writes: it only spawns the sender task
OnOpenWrites(c) == <<>>

\* dc.on_open
OnOpen(c) ==
    /\ session[c] = "dc"
    /\ alive[c]
    /\ session' = [session EXCEPT ![c] = "running"]
    /\ last' = Step("open", c, NoEvent, OnOpenWrites(c), TRUE, "")
    /\ UNCHANGED <<platform, os, captureState, alive, rx_broadcast, client_state>>

\* the peer goes away
Disconnect(c) ==
    /\ session[c] \in {"dc", "running"}
    /\ alive[c]
    /\ alive' = [alive EXCEPT ![c] = FALSE]
    /\ last' = Idle
    /\ UNCHANGED <<platform, os, captureState, session, rx_broadcast, client_state>>

\* send_cursor_event: the frames it hands to dc.send
CursorEventWrites(st, ev) ==
    IF ev.kind = "CursorChanged" THEN
        IF IsCached(ev.id) THEN
            IF ev.id \in st.sent_cursor_ids
            THEN <<SignalMsg(ev.id)>>
            ELSE <<CursorDataMsg(ev.id, st.dpr)>>
        ELSE <<>>
    ELSE <<HideMsg>>

\* ids carried by the CursorData frames of tx
DataIds(tx) == {tx[i].cursor_id : i \in {j \in DOMAIN tx : tx[j].type = "CursorData"}}

\* send_cursor_event: sent_cursor_ids after the frames tx were sent (ok) or not
SentAfterEventForgetful(st, tx, ok) == st.sent_cursor_ids
SentAfterEvent(st, tx, ok) ==
    IF ok THEN st.sent_cursor_ids \cup DataIds(tx) ELSE st.sent_cursor_ids

\* one turn of the sender task's select! on rx.recv()
SenderRecv(c) ==
    /\ session[c] = "running"
    /\ IF rx_broadcast[c].lagged THEN
            \* RecvError::Lagged(n): logged, the loop goes on
            /\ rx_broadcast' = [rx_broadcast EXCEPT ![c].lagged = FALSE]
            /\ last' = Step("lagged", c, NoEvent, <<>>, TRUE, "")
            /\ UNCHANGED <<session, client_state>>
       ELSE
            /\ rx_broadcast[c].q # <<>>
            /\ LET ev == Head(rx_broadcast[c].q)
                   st == client_state[c]
                   tx == CursorEventWrites(st, ev)
                   ok == SendOk(c, tx)
               IN /\ client_state' = [client_state EXCEPT
                        ![c].sent_cursor_ids = SentAfterEvent(st, tx, ok)]
                  /\ last' = Step("event", c, ev, tx, ok, "")
                  /\ IF ok
                     THEN /\ rx_broadcast' = [rx_broadcast EXCEPT ![c].q = Tail(@)]
                          /\ UNCHANGED session
                     ELSE \* Err(()) breaks the loop; the receiver is dropped
                          /\ rx_broadcast' = [rx_broadcast EXCEPT ![c] = EmptyRx]
                          /\ session' = [session EXCEPT ![c] = "stopped"]
    /\ UNCHANGED <<platform, os, captureState, alive>>

\* the 30 s heartbeat arm of the sender task's select!
Heartbeat(c) ==
    /\ session[c] = "running"
    /\ LET tx == <<HeartbeatMsg>>
           ok == SendOk(c, tx)
       IN /\ last' = Step("heartbeat", c, NoEvent, tx, ok, "")
          /\ IF ok
             THEN UNCHANGED <<session, rx_broadcast>>
             ELSE /\ rx_broadcast' = [rx_broadcast EXCEPT ![c] = EmptyRx]
                  /\ session' = [session EXCEPT ![c] = "stopped"]
    /\ UNCHANGED <<platform, os, captureState, alive, client_state>>

\* an acceptance test without the 0.01 tolerance
DprAcceptedNoTolerance(st, v) == v # NaN /\ v > 0 /\ v <= 10000

\* an acceptance test without the range check
DprAcceptedAnyRange(st, v) == v # NaN /\ Abs(v - st.dpr) > 10

\* on_message: the acceptance test of a parsed device_pixel_ratio; every
\* comparison with NaN is false
DprAccepted(st, v) ==
    /\ v # NaN
    /\ v > 0
    /\ v <= 10000
    /\ (IF v >= st.dpr THEN v - st.dpr ELSE st.dpr - v) > 10

\* on_message: the frame pushed after an accepted update
DprPushWrites(v) ==
    IF LAST_CURSOR_ID # NoId /\ IsCached(LAST_CURSOR_ID)
    THEN <<CursorDataMsg(LAST_CURSOR_ID, v)>>
    ELSE <<>>

\* on_message: sent_cursor_ids after clear() and the push (its result is dropped)
SentAfterDprKeeping(st, tx) == st.sent_cursor_ids \cup DataIds(tx)
SentAfterDpr(st, tx) == DataIds(tx)

\* dc.on_message with a text frame; v is what parse_dpr_from_json returns
OnMessageText(c, v) ==
    /\ session[c] = "running"
    /\ LET st == client_state[c] IN
        IF v = -1 THEN
            /\ last' = Step("dpr", c, NoEvent, <<>>, TRUE, "noparse")
            /\ UNCHANGED client_state
        ELSE IF ~DprAccepted(st, v) THEN
            /\ last' = Step("dpr", c, NoEvent, <<>>, TRUE, "rejected")
            /\ UNCHANGED client_state
        ELSE
            LET tx == DprPushWrites(v) IN
            /\ client_state' = [client_state EXCEPT
                    ![c] = [dpr |-> v, sent_cursor_ids |-> SentAfterDpr(st, tx)]]
            /\ last' = Step("dpr", c, NoEvent, tx, SendOk(c, tx), "accepted")
    /\ UNCHANGED <<platform, os, captureState, session, alive, rx_broadcast>>

(***************************************************************************)
(* History observers.  They constrain history variables only, as functions *)
(* of the step just recorded in last'.                                     *)
(***************************************************************************)
\* the step just taken wrote CursorData frames that reached the peer
DataDelivered == IF last'.op \in {"event", "dpr"} /\ last'.ok THEN DataIds(last'.tx) ELSE {}

\* dataEpoch[c]: ids whose CursorData reached c since its data channel was
\* announced or, if later, since its last accepted DPR update began
ObserveData ==
    dataEpoch' =
        IF last'.op = "connect" THEN [dataEpoch EXCEPT ![last'.c] = {}]
        ELSE IF last'.op = "dpr" /\ last'.res = "accepted"
             THEN [dataEpoch EXCEPT ![last'.c] = DataDelivered]
        ELSE IF last'.op = "event"
             THEN [dataEpoch EXCEPT ![last'.c] = @ \cup DataDelivered]
             ELSE dataEpoch

\* the tick just taken saw a cursor that is showing
TickSawCursor ==
    /\ last'.op = "tick"
    /\ last'.res \in {"same", "captured", "capture_failed"}
    /\ ~OsHidden

\* hideEmitted: a CursorHidden was emitted and no tick has seen a cursor since
ObserveHide ==
    hideEmitted' =
        IF last'.op = "tick" /\ last'.ev = CursorHidden THEN TRUE
        ELSE IF TickSawCursor THEN FALSE
        ELSE hideEmitted

(***************************************************************************)
(* Specifications                                                          *)
(***************************************************************************)
\* the session the core specifications follow
SpecClients == {"A"}

\* the build the core specifications follow
SpecInit == Init /\ platform = "windows"

\* what a step of each specification does besides the handler it runs
CoreFrame == UNCHANGED <<histVars, clipVars, auxVars>>
DataFrame == ObserveData /\ UNCHANGED <<hideEmitted, scn, clipVars, auxVars>>
CaptureFrame == ObserveHide /\ UNCHANGED <<dataEpoch, scn, clipVars, auxVars>>

Next ==
    \/ OsSetCursor /\ CoreFrame
    \/ OsToggleVisible /\ CoreFrame
    \/ OsToggleEdge /\ CoreFrame
    \/ CaptureCursorWindows /\ CoreFrame
    \/ \E c \in SpecClients : OnDataChannel(c) /\ CoreFrame
    \/ \E c \in SpecClients : OnOpen(c) /\ CoreFrame
    \/ \E c \in SpecClients : Disconnect(c) /\ CoreFrame
    \/ \E c \in SpecClients : SenderRecv(c) /\ CoreFrame
    \/ \E c \in SpecClients : Heartbeat(c) /\ CoreFrame
    \/ \E c \in SpecClients, v \in DprInputs : OnMessageText(c, v) /\ CoreFrame

Spec == SpecInit /\ [][Next]_vars

DataNext ==
    \/ OsSetCursor /\ DataFrame
    \/ OsToggleVisible /\ DataFrame
    \/ OsToggleEdge /\ DataFrame
    \/ CaptureCursorWindows /\ DataFrame
    \/ \E c \in SpecClients : OnDataChannel(c) /\ DataFrame
    \/ \E c \in SpecClients : OnOpen(c) /\ DataFrame
    \/ \E c \in SpecClients : Disconnect(c) /\ DataFrame
    \/ \E c \in SpecClients : SenderRecv(c) /\ DataFrame
    \/ \E c \in SpecClients : Heartbeat(c) /\ DataFrame
    \/ \E c \in SpecClients, v \in DprInputs : OnMessageText(c, v) /\ DataFrame

DataSpec == SpecInit /\ [][DataNext]_vars

CaptureNext ==
    \/ OsSetCursor /\ CaptureFrame
    \/ OsToggleVisible /\ CaptureFrame
    \/ OsToggleEdge /\ CaptureFrame
    \/ CaptureCursorWindows /\ CaptureFrame
    \/ CaptureCursorLinux /\ CaptureFrame
    \/ CaptureCursorMacos /\ CaptureFrame

CaptureSpec == Init /\ [][CaptureNext]_vars

(***************************************************************************)
(* Clipboard mirror (clipboard_sync/mod.rs, handle_client_clipboard)       *)
(*                                                                         *)
(* A ClipboardContent is [kind, data, enc]: Text(data), Files(data), or    *)
(* Image whose PNG bytes decode to the pixels `data`; `enc` tells which    *)
(* encoder produced the PNG bytes ("agent": encode_rgba_to_png).           *)
(* The host clipboard holds [kind, data, origin]; origin is "agent" when   *)
(* apply_to_clipboard wrote it and "host" when a host application did.     *)
(* A read carries that origin along, and `quiet`: no apply_to_clipboard    *)
(* call overlaps the poll (none is running at its read, none starts before *)
(* its decision).  Both are history: no handler branches on them.          *)
(***************************************************************************)
Texts == {"foo", "bar"}
Pixels == {"px"}
FileLists == {"a.txt"}

TextContent(t) == [kind |-> "Text", data |-> t, enc |-> "-"]
ImageContent(px, enc) == [kind |-> "Image", data |-> px, enc |-> enc]
FilesContent(names) == [kind |-> "Files", data |-> names, enc |-> "-"]

\* blake3 of the payload bytes, taken as collision free
Blake3(content) == [k |-> content.kind, d |-> content.data, e |-> content.enc]

\* what a client can put in a ClipboardData message
ClientContents ==
    {TextContent(t) : t \in Texts}
      \cup {ImageContent(px, enc) : px \in Pixels, enc \in {"agent", "other"}}
      \cup {FilesContent(n) : n \in FileLists}

\* content_hash of the message: the hash of the payload, the hash of some
\* other payload, or no hash of anything
ClientHashes(content) ==
    {Blake3(content), Blake3(TextContent("foo")), [k |-> "bogus", d |-> "", e |-> ""]}

\* what a host application can put on the clipboard
HostClips ==
    {[kind |-> "Text", data |-> t, origin |-> "host"] : t \in Texts}
      \cup {[kind |-> "Image", data |-> px, origin |-> "host"] : px \in Pixels}
      \cup {[kind |-> "Files", data |-> n, origin |-> "host"] : n \in FileLists}

\* format!("[Files — transfer not implemented]\n{}", names.join("\n"))
FilesFallback(names) == "[Files] a.txt"

\* what apply_to_clipboard leaves on the host clipboard
AppliedClip(content) ==
    IF content.kind = "Text" THEN
        [kind |-> "Text", data |-> content.data, origin |-> "agent"]
    ELSE IF content.kind = "Image" THEN
        \* PNG -> RGBA -> set_image
        [kind |-> "Image", data |-> content.data, origin |-> "agent"]
    ELSE
        [kind |-> "Text", data |-> FilesFallback(content.data), origin |-> "agent"]

\* read_clipboard: text first, then the image re-encoded to PNG, else None
ReadClipboard(clip) ==
    IF clip.kind = "Text" THEN
        [some |-> TRUE, hash |-> Blake3(TextContent(clip.data)),
         origin |-> clip.origin, quiet |-> applyPc = "idle"]
    ELSE IF clip.kind = "Image" THEN
        [some |-> TRUE, hash |-> Blake3(ImageContent(clip.data, "agent")),
         origin |-> clip.origin, quiet |-> applyPc = "idle"]
    ELSE NoRead

ClipStep(op, emitted, rd) ==
    [op |-> op, emitted |-> emitted, hash |-> rd.hash, origin |-> rd.origin,
     quiet |-> rd.quiet]

\* a host application copies something
HostCopy ==
    /\ \E clip \in HostClips :
        /\ clip # hostClip
        /\ hostClip' = clip
    /\ clipLast' = ClipStep("copy", FALSE, NoRead)
    /\ UNCHANGED <<LAST_SET_HASH, last_broadcast_hash, pollPc, pollRead, applyPc, applyArg>>

\* handle_client_clipboard -> apply_to_clipboard, up to the clipboard write
ApplySet ==
    /\ applyPc = "idle"
    /\ \E content \in ClientContents, ok \in BOOLEAN :
       \E hash \in ClientHashes(content) :
        IF ok THEN
            /\ hostClip' = AppliedClip(content)
            /\ applyPc' = "record"
            /\ applyArg' = hash
            /\ clipLast' = ClipStep("set", FALSE, NoRead)
            \* a poll between its read and its decision is no longer quiet
            /\ pollRead' = IF pollPc = "decide"
                           THEN [pollRead EXCEPT !.quiet = FALSE] ELSE pollRead
        ELSE
            \* Clipboard::new, the PNG decode or the write failed: Err, nothing recorded
            /\ clipLast' = ClipStep("apply_failed", FALSE, NoRead)
            /\ UNCHANGED <<hostClip, applyPc, applyArg, pollRead>>
    /\ UNCHANGED <<LAST_SET_HASH, last_broadcast_hash, pollPc>>

\* apply_to_clipboard: record_set_hash(hash)
ApplyRecord ==
    /\ applyPc = "record"
    /\ LAST_SET_HASH' = applyArg
    /\ applyPc' = "idle"
    /\ applyArg' = NoHash
    /\ clipLast' = ClipStep("record", FALSE, NoRead)
    /\ UNCHANGED <<hostClip, last_broadcast_hash, pollPc, pollRead>>

\* run_clipboard_capture: poll.tick() and spawn_blocking(read_clipboard)
PollRead ==
    /\ pollPc = "tick"
    /\ \E readOk \in BOOLEAN :
        LET rd == IF readOk THEN ReadClipboard(hostClip) ELSE NoRead IN
        /\ pollRead' = rd
        /\ pollPc' = IF rd.some THEN "decide" ELSE "tick"
        /\ clipLast' = ClipStep("read", FALSE, NoRead)
    /\ UNCHANGED <<hostClip, LAST_SET_HASH, last_broadcast_hash, applyPc, applyArg>>

\* run_clipboard_capture: the two skips, then the broadcast
PollDecide ==
    /\ pollPc = "decide"
    /\ IF pollRead.hash = last_broadcast_hash THEN
            /\ clipLast' = ClipStep("poll", FALSE, pollRead)
            /\ UNCHANGED last_broadcast_hash
       ELSE IF pollRead.hash = LAST_SET_HASH THEN
            /\ last_broadcast_hash' = pollRead.hash
            /\ clipLast' = ClipStep("poll", FALSE, pollRead)
       ELSE
            /\ last_broadcast_hash' = pollRead.hash
            /\ clipLast' = ClipStep("poll", TRUE, pollRead)
    /\ pollPc' = "tick"
    /\ pollRead' = NoRead
    /\ UNCHANGED <<hostClip, LAST_SET_HASH, applyPc, applyArg>>

ClipFrame == UNCHANGED <<coreVars, histVars, auxVars>>

ClipNext ==
    \/ HostCopy /\ ClipFrame
    \/ ApplySet /\ ClipFrame
    \/ ApplyRecord /\ ClipFrame
    \/ PollRead /\ ClipFrame
    \/ PollDecide /\ ClipFrame

ClipSpec == Init /\ [][ClipNext]_vars

(***************************************************************************)
(* Two peers: A is connected before the first cursor X is captured, B      *)
(* connects afterwards; the OS then shows Y and returns to a handle with   *)
(* the pixels of X.  No peer leaves or changes its DPR, and the OS changes *)
(* cursor only when both peers have consumed everything broadcast so far.  *)
(*   scn: 0 X on screen   1 X captured   2 B open   3 Y on screen          *)
(*        4 Y captured    5 X again on screen       6 X captured again     *)
(***************************************************************************)
\* the first OS handle, the next one, and the one whose pixels equal the first's
HandleX == NumHandles - NumIds
HandleY == HandleX + 1
HandleXAgain == HandleX + NumIds

AllConsumed == \A c \in Clients : rx_broadcast[c] = EmptyRx

ScnFrame == UNCHANGED <<dataEpoch, hideEmitted, clipVars, auxVars>>

ScnConnectA ==
    /\ scn = 0
    /\ OnDataChannel("A")
    /\ scn' = scn

ScnOpenA ==
    /\ scn = 0
    /\ OnOpen("A")
    /\ scn' = scn

ScnTick(Capture) ==
    /\ session["A"] = "running"
    /\ Capture
    /\ scn' = IF last'.res = "captured" /\ scn \in {0, 3, 5} THEN scn + 1 ELSE scn

ScnConnectB ==
    /\ scn = 1
    /\ session["B"] = "new"
    /\ OnDataChannel("B")
    /\ scn' = scn

ScnOpenB ==
    /\ scn = 1
    /\ OnOpen("B")
    /\ scn' = 2

ScnShowY ==
    /\ scn = 2
    /\ AllConsumed
    /\ OsSetCursorTo(HandleY)
    /\ scn' = 3

ScnShowXAgain ==
    /\ scn = 4
    /\ AllConsumed
    /\ OsSetCursorTo(HandleXAgain)
    /\ scn' = 5

ScnSenderRecv(c) == SenderRecv(c) /\ scn' = scn

ScnHeartbeat(c) == Heartbeat(c) /\ scn' = scn

ScenarioNext ==
    \/ ScnConnectA /\ ScnFrame
    \/ ScnOpenA /\ ScnFrame
    \/ ScnTick(CaptureCursorWindows) /\ ScnFrame
    \/ ScnTick(CaptureCursorLinux) /\ ScnFrame
    \/ ScnTick(CaptureCursorMacos) /\ ScnFrame
    \/ ScnConnectB /\ ScnFrame
    \/ ScnOpenB /\ ScnFrame
    \/ ScnShowY /\ ScnFrame
    \/ ScnShowXAgain /\ ScnFrame
    \/ \E c \in Clients : ScnSenderRecv(c) /\ ScnFrame
    \/ \E c \in Clients : ScnHeartbeat(c) /\ ScnFrame

ScenarioSpec == Init /\ [][ScenarioNext]_vars

(***************************************************************************)
(* Properties                                                              *)
(***************************************************************************)
\* C1: every CursorChanged(id) a session consumes makes it send exactly one
\* frame: CursorSignal(id) if id is in sent_cursor_ids, otherwise CursorData
\* for id at the client's dpr, after which id is in sent_cursor_ids.
C1_OneFramePerCursorChanged ==
    [][(last'.op = "event" /\ last'.ev.kind = "CursorChanged") =>
        LET c == last'.c
            id == last'.ev.id
            st == client_state[c]
        IN IF id \in st.sent_cursor_ids
           THEN last'.tx = <<SignalMsg(id)>>
           ELSE /\ last'.tx = <<CursorDataMsg(id, st.dpr)>>
                /\ last'.ok => id \in client_state'[c].sent_cursor_ids]_vars

C3_BootstrapOnOpen ==
    [][(last'.op = "open" /\ LAST_CURSOR_ID # NoId) =>
        last'.tx = <<CursorDataMsg(LAST_CURSOR_ID, DefaultDpr)>>]_vars

\* C4: an accepted DPR update r' sets the client's dpr to r' and, if
\* LAST_CURSOR_ID is set, sends CursorData for it at r' in the same handler.
C4_DprPushesCurrentCursor ==
    [][\A c \in Clients, v \in DprInputs :
        (OnMessageText(c, v) /\ DprAccepted(client_state[c], v)) =>
            /\ client_state'[c].dpr = v
            /\ LAST_CURSOR_ID # NoId =>
                 last'.tx = <<CursorDataMsg(LAST_CURSOR_ID, v)>>]_vars

\* C5 (as stated): after an accepted DPR update sent_cursor_ids is empty.
C5_SentEmptyAfterDpr ==
    [][(last'.op = "dpr" /\ last'.res = "accepted") =>
        client_state'[last'.c].sent_cursor_ids = {}]_vars

\* C5 (amended): after an accepted DPR update sent_cursor_ids holds the id
\* of the CursorData the handler pushed at the new DPR, which is the
\* current cursor id, and nothing else.
C5_SentOnlyPushedAfterDpr ==
    [][(last'.op = "dpr" /\ last'.res = "accepted") =>
        /\ client_state'[last'.c].sent_cursor_ids = DataIds(last'.tx)
        /\ client_state'[last'.c].sent_cursor_ids \subseteq {LAST_CURSOR_ID} \ {NoId}]_vars

\* an accepted DPR update that pushed the current cursor and left its id in
\* sent_cursor_ids
C5_Witness ==
    /\ last.op = "dpr"
    /\ last.res = "accepted"
    /\ last.ok
    /\ LAST_CURSOR_ID # NoId
    /\ last.tx = <<CursorDataMsg(LAST_CURSOR_ID, client_state[last.c].dpr)>>
    /\ client_state[last.c].sent_cursor_ids = {LAST_CURSOR_ID}

\* C6: in the two-peer scenario, while X is in the cache, each peer that
\* consumes the CursorChanged(X) of the return to X is sent CursorSignal(X).
C6_SignalOnReturnToX ==
    (/\ scn = 6
     /\ last.op = "event"
     /\ last.ev = CursorChanged(CursorIdOf(PixelsOf(HandleX)))
     /\ IsCached(CursorIdOf(PixelsOf(HandleX))))
        => last.tx = <<SignalMsg(CursorIdOf(PixelsOf(HandleX)))>>

\* C7: a tick emits CursorHidden only if no CursorHidden has been emitted
\* since a tick last saw a showing cursor.
C7_OneHidePerCycle ==
    [][(last'.op = "tick" /\ last'.ev = CursorHidden) => ~hideEmitted]_vars

\* the cursor is still hidden on a tick after the one that emitted
\* CursorHidden, and that tick emitted nothing
C7_Witness ==
    /\ hideEmitted
    /\ OsHidden
    /\ last.op = "tick"
    /\ last.res \in {"hidden_again", "same"}
    /\ last.ev = NoEvent

\* C8: a poll that reads content apply_to_clipboard wrote, with no apply
\* overlapping the poll, emits no ClipboardEvent.
C8_NoEchoOfAppliedContent ==
    (clipLast.op = "poll" /\ clipLast.origin = "agent" /\ clipLast.quiet)
        => ~clipLast.emitted

\* C9: a poll that no apply overlaps emits nothing when the hash read equals
\* last_broadcast_hash, and emits when it differs and the content was put
\* there by the host.
C9_HostChangeIsEmitted ==
    [][(clipLast'.op = "poll" /\ pollRead.quiet) =>
        IF pollRead.hash = last_broadcast_hash
        THEN ~clipLast'.emitted
        ELSE pollRead.origin = "host" => clipLast'.emitted]_vars

\* C10: the tick after a failed full capture, with the same cursor still
\* current, attempts the capture again.
C10_RetryAfterFailedCapture ==
    [][(last.op = "tick" /\ last.res = "capture_failed" /\ last'.op = "tick") =>
        /\ last.ev = NoEvent
        /\ last'.res \in {"captured", "capture_failed", "info_failed"}]_vars

(***************************************************************************)
(* Fan-out to two sessions, with the events numbered in the order the      *)
(* capture loop emits them                                                 *)
(***************************************************************************)
\* the last n elements of a sequence
Suffix(s, n) == SubSeq(s, Len(s) - n + 1, Len(s))

\* the step is a tick of the capture loop that emits an event
TickEmits == last'.op = "tick" /\ last'.ev # NoEvent

\* the step is session c writing the frames of an event
SentEvent(c) == last'.op = "event" /\ last'.c = c /\ last'.tx # <<>> /\ last'.ok

\* the emit numbers follow the events: a tick numbers its event and hands the
\* number to every subscribed receiver through the same send; a receiver that
\* consumed or dropped events keeps the numbers of the events it still holds;
\* a session that wrote the frames of an event records the event's number
ObserveOrder ==
    /\ emitSeq' = IF TickEmits THEN emitSeq + 1 ELSE emitSeq
    /\ rxStamp' = [c \in Clients |->
          IF TickEmits /\ Subscribed(c)
          THEN Push([q |-> rxStamp[c], lagged |-> FALSE], emitSeq').q
          ELSE Suffix(rxStamp[c], Len(rx_broadcast'[c].q))]
    /\ sentLast' = [c \in Clients |->
          IF SentEvent(c) THEN Head(rxStamp[c]) ELSE sentLast[c]]
    /\ sentPrev' = [c \in Clients |->
          IF SentEvent(c) THEN sentLast[c] ELSE sentPrev[c]]

FanoutFrame ==
    ObserveOrder /\ UNCHANGED <<histVars, clipVars, cacheVars, broadcast_capacity,
                                peer_connections, mainVars, fnVars, loops>>

\* the capture loop, stopped after MaxEmit events; the cursor stays visible,
\* so the events are CursorChanged events
FanoutTick == emitSeq < MaxEmit /\ CaptureCursorWindows

FanoutNext ==
    \/ OsSetCursor /\ FanoutFrame
    \/ FanoutTick /\ FanoutFrame
    \/ \E c \in Clients : OnDataChannel(c) /\ FanoutFrame
    \/ \E c \in Clients : OnOpen(c) /\ FanoutFrame
    \/ \E c \in Clients : SenderRecv(c) /\ FanoutFrame

\* the Windows build with a channel that holds one event more, so that a
\* receiver can hold two events at the smallest capacity
FanoutInit ==
    /\ InitState
    /\ platform = "windows"
    /\ broadcast_capacity = MaxBroadcast + 1

FanoutSpec == FanoutInit /\ [][FanoutNext]_vars

(***************************************************************************)
(* Offers: handle_offer keeps every peer connection it creates             *)
(***************************************************************************)
\* handle_offer, with the on_data_channel callback of the connection it makes
HandleOffer(c) ==
    /\ Len(peer_connections) < MaxOffers
    /\ OnDataChannel(c)
    /\ peer_connections' = Append(peer_connections, c)

OfferFrame ==
    UNCHANGED <<histVars, clipVars, cacheVars, orderVars, broadcast_capacity, mainVars,
                fnVars, loops>>

\* a handler of a session, which leaves _peer_connections alone
KeepsConnections == UNCHANGED peer_connections /\ OfferFrame

OfferNext ==
    \/ OsSetCursor /\ KeepsConnections
    \/ CaptureCursorWindows /\ KeepsConnections
    \/ \E c \in SpecClients : HandleOffer(c) /\ OfferFrame
    \/ \E c \in SpecClients : OnOpen(c) /\ KeepsConnections
    \/ \E c \in SpecClients : Disconnect(c) /\ KeepsConnections
    \/ \E c \in SpecClients : SenderRecv(c) /\ KeepsConnections
    \/ \E c \in SpecClients : Heartbeat(c) /\ KeepsConnections

OfferSpec == SpecInit /\ [][OfferNext]_vars

(***************************************************************************)
(* main: four spawned tasks and the select! that waits for the first       *)
(***************************************************************************)
\* how a spawned task can end: it returns Ok, it returns Err, or it panics
TaskOutcomes == {"ok", "err", "panicked"}

\* what awaiting the JoinHandle of task t yields: the closures of the capture,
\* clipboard and sunshine tasks log their Err and return (), so only the rtc
\* task hands its Result to main; a panic is a JoinError for all of them
JoinResult(t) ==
    IF task[t] = "panicked" THEN "JoinError"
    ELSE IF t = "rtc" /\ task[t] = "err" THEN "Ok(Err)"
    ELSE "Ok"

\* the status main returns after its select!: Ok(()) on every path
MainExit(joined) == ExitSuccess

\* a spawned task ends while main waits
TaskEnd(t) ==
    /\ main_pc = "select"
    /\ task[t] = "running"
    /\ \E o \in TaskOutcomes : task' = [task EXCEPT ![t] = o]
    /\ UNCHANGED <<main_pc, exit_code, main_logged>>

\* select! takes a finished task, logs a JoinError, and main returns
MainSelect(t) ==
    /\ main_pc = "select"
    /\ task[t] # "running"
    /\ main_logged' = IF JoinResult(t) = "JoinError" THEN t ELSE "-"
    /\ exit_code' = MainExit(JoinResult(t))
    /\ main_pc' = "exited"
    /\ UNCHANGED task

MainFrame ==
    UNCHANGED <<coreVars, histVars, clipVars, cacheVars, orderVars, broadcast_capacity,
                peer_connections, fnVars, loops>>

MainNext ==
    \/ \E t \in Tasks : TaskEnd(t) /\ MainFrame
    \/ \E t \in Tasks : MainSelect(t) /\ MainFrame

MainSpec == Init /\ [][MainNext]_vars

(***************************************************************************)
(* Animation frame probing (windows.rs)                                    *)
(***************************************************************************)
\* pixel contents a frame of an animated cursor can have
FrameContents == 1..(MAX_ANIM_FRAMES + 1)

\* cursors to probe: the frames the cursor cycles through, and the first step
\* at which DrawIconEx fails (0: it never fails and steps past the last frame
\* wrap around)
AnimatedCursors ==
    [frames : UNION {[1..n -> FrameContents] : n \in 1..(MAX_ANIM_FRAMES + 1)},
     failAt : 0..(MAX_ANIM_FRAMES + 1)]

\* blake3(rgba)[..16], taken as collision free on the frames of the model
FrameHash(rgba) == rgba

\* render_cursor_frame(hicon, width, height, step)
RenderCursorFrame(cur, step) ==
    IF cur.failAt # 0 /\ step >= cur.failAt
    THEN [ok |-> FALSE, rgba |-> NoId]
    ELSE [ok |-> TRUE, rgba |-> cur.frames[(step % Len(cur.frames)) + 1]]

\* the elements of a sequence
Range(s) == {s[i] : i \in 1..Len(s)}

\* a probe that never takes a repeated frame for the end of the cycle
ProbeStopsNever(hash, frame_hashes) == FALSE

\* the probe loop breaks on a frame it has seen: the first one (a full cycle)
\* or any other (a duplicate)
ProbeStops(hash, frame_hashes) ==
    hash = frame_hashes[1] \/ hash \in Range(frame_hashes)

\* the caller renders step 0 and probe_animation_frames_with_first starts
\* with that frame
ProbeStart ==
    /\ fnOut.pc = "idle"
    /\ RenderCursorFrame(fnIn, 0).ok
    /\ LET first_frame == RenderCursorFrame(fnIn, 0).rgba
       IN fnOut' = [pc |-> IF 1 < MAX_ANIM_FRAMES THEN "run" ELSE "done",
                    val |-> [frames |-> <<first_frame>>,
                             frame_hashes |-> <<FrameHash(first_frame)>>,
                             step |-> 1, renders |-> 1]]

\* one iteration of `for step in 1..MAX_ANIM_FRAMES`
ProbeStep ==
    /\ fnOut.pc = "run"
    /\ LET v == fnOut.val
           r == RenderCursorFrame(fnIn, v.step)
           hash == FrameHash(r.rgba)
           break == ~r.ok \/ ProbeStops(hash, v.frame_hashes)
           more == ~break /\ v.step + 1 < MAX_ANIM_FRAMES
       IN fnOut' = [pc |-> IF more THEN "run" ELSE "done",
                    val |-> [frames |-> IF break THEN v.frames ELSE Append(v.frames, r.rgba),
                             frame_hashes |-> IF break THEN v.frame_hashes
                                              ELSE Append(v.frame_hashes, hash),
                             step |-> v.step + 1,
                             renders |-> v.renders + 1]]

ProbeNext ==
    \/ ProbeStart /\ FnFrame
    \/ ProbeStep /\ FnFrame

ProbeSpec == FnInit(AnimatedCursors) /\ [][ProbeNext]_vars

(***************************************************************************)
(* Scaling a cached cursor for a client (mod.rs)                           *)
(* Ratios are in thousandths, as client_state.dpr is; the f32 arithmetic   *)
(* of the source is taken as exact on them.                                *)
(***************************************************************************)

\* n / d cut to an integer instead of rounded
TruncDiv(n, d) == n \div d

\* f32::round of n / d for n >= 0, d > 0: to the nearest integer, halves up
RoundDiv(n, d) == (2 * n + d) \div (2 * d)

\* a cached cursor's size and hotspot, the client's dpr and get_dpi_scale()
ScaleInputs ==
    [width : {1, 3, 16, 32}, height : {1, 32}, hotspot_x : {0, 3, 7}, hotspot_y : {0, 7},
     dpr : {100, 995, 1000, 1250, 2000}, server_scale : {1000, 1250, 2000}]

\* create_scaled_cursor_message: width, height and hotspot of the CursorData
ScaledCursor(c) ==
    IF 100 * Abs(c.dpr - c.server_scale) < c.server_scale
    THEN [width |-> c.width, height |-> c.height,
          hotspot_x |-> c.hotspot_x, hotspot_y |-> c.hotspot_y]
    ELSE [width |-> Max(RoundDiv(c.width * c.dpr, c.server_scale), 1),
          height |-> Max(RoundDiv(c.height * c.dpr, c.server_scale), 1),
          hotspot_x |-> RoundDiv(c.hotspot_x * c.dpr, c.server_scale),
          hotspot_y |-> RoundDiv(c.hotspot_y * c.dpr, c.server_scale)]

ScaleCall ==
    /\ fnOut.pc = "idle"
    /\ fnOut' = [pc |-> "done", val |-> ScaledCursor(fnIn)]

ScaleNext == ScaleCall /\ FnFrame

ScaleSpec == FnInit(ScaleInputs) /\ [][ScaleNext]_vars

(***************************************************************************)
(* Text frames of one session, with every kind of device_pixel_ratio       *)
(***************************************************************************)
DprNext ==
    \/ OsSetCursor /\ CoreFrame
    \/ CaptureCursorWindows /\ CoreFrame
    \/ \E c \in SpecClients : OnDataChannel(c) /\ CoreFrame
    \/ \E c \in SpecClients : OnOpen(c) /\ CoreFrame
    \/ \E c \in SpecClients : Disconnect(c) /\ CoreFrame
    \/ \E c \in SpecClients : SenderRecv(c) /\ CoreFrame
    \/ \E c \in SpecClients, v \in DprValues : OnMessageText(c, v) /\ CoreFrame

DprSpec == SpecInit /\ [][DprNext]_vars

(***************************************************************************)
(* Dual-background decomposition of one pixel (windows.rs)                 *)
(***************************************************************************)
\* the largest value of a colour channel
MaxByte == 255

Min(a, b) == IF a <= b THEN a ELSE b

\* i32::clamp(0, 255)
ClampByte(x) == Max(0, Min(x, MaxByte))

\* the pixel DrawIconEx leaves on black and on white for a premultiplied
\* colour k at coverage a, the same in the three channels
SyntheticPixel(k, a) ==
    [black |-> <<k, k, k>>,
     white |-> <<k + (MaxByte - a), k + (MaxByte - a), k + (MaxByte - a)>>]

\* pixels of that kind for the coverages up to top, a few inversion pixels (brighter on black than on
\* white) and a pixel whose channels disagree on the coverage
RenderedPixels(top) ==
    UNION {{SyntheticPixel(k, a) : k \in 0..a} : a \in 0..top}
    \cup {[black |-> <<MaxByte, MaxByte, MaxByte>>, white |-> <<0, 0, 0>>],
          [black |-> <<MaxByte, 0, 0>>, white |-> <<0, MaxByte, MaxByte>>],
          [black |-> <<10, 20, 30>>, white |-> <<110, 100, 90>>]}

\* a decomposition that keeps the premultiplied colour
KeepPremultiplied(c, alpha) == c

\* the straight colour of a channel: (c as f32 * 255.0 / a).round().clamp(0, 255)
Unpremultiply(c, alpha) ==
    IF alpha > 0 THEN ClampByte(RoundDiv(c * MaxByte, alpha)) ELSE 0

\* the RGBA pixel computed from the two renderings
DecomposePixel(p) ==
    LET b == p.black
        w == p.white
        is_xor == b[1] > w[1] \/ b[2] > w[2] \/ b[3] > w[3]
        alpha == ClampByte(Min(Min(MaxByte - (w[1] - b[1]), MaxByte - (w[2] - b[2])),
                               MaxByte - (w[3] - b[3])))
    IN  IF is_xor
        THEN [r |-> MaxByte - b[1], g |-> MaxByte - b[2], b |-> MaxByte - b[3],
              a |-> MaxByte, is_xor |-> TRUE]
        ELSE [r |-> Unpremultiply(b[1], alpha), g |-> Unpremultiply(b[2], alpha),
              b |-> Unpremultiply(b[3], alpha), a |-> alpha, is_xor |-> FALSE]

DecomposeCall ==
    /\ fnOut.pc = "idle"
    /\ fnOut' = [pc |-> "done", val |-> DecomposePixel(fnIn)]

DecomposeNext == DecomposeCall /\ FnFrame

DecomposeSpec == FnInit(RenderedPixels(MaxByte)) /\ [][DecomposeNext]_vars

(***************************************************************************)
(* Monochrome cursors with inversion pixels: mask to RGBA, canvas          *)
(* expansion and white outline (windows.rs, mod.rs).  A pixel is [c, a]:   *)
(* its three colour channels, which are equal here, and its alpha.         *)
(***************************************************************************)
\* windows.rs:250
XOR_PAD == 4

\* the pixels of a w x h image
Cells(w, h) == (0..(w - 1)) \X (0..(h - 1))

\* what the AND and XOR masks say of a pixel
MaskKinds == {"transparent", "invert", "black"}

\* monochrome cursors: the kind of every pixel
MonoMasks == [Cells(MaskWidth, MaskHeight) -> MaskKinds]

TransparentPixel == [c |-> 0, a |-> 0]

\* get_monochrome_cursor_rgba: the pixel written for a mask pixel
MonoPixel(kind) ==
    IF kind = "black" THEN [c |-> 0, a |-> MaxByte]
    ELSE IF kind = "invert" THEN [c |-> 0, a |-> 200]
    ELSE TransparentPixel

\* get_monochrome_cursor_rgba: the image, and whether it has inversion pixels
MonochromeCursorRgba(mask) ==
    [rgba |-> [p \in DOMAIN mask |-> MonoPixel(mask[p])],
     has_xor |-> \E p \in DOMAIN mask : mask[p] = "invert"]

\* expand_canvas
ExpandCanvas(rgba, w, h, pad) ==
    [p \in Cells(w + 2 * pad, h + 2 * pad) |->
        IF <<p[1] - pad, p[2] - pad>> \in Cells(w, h)
        THEN rgba[<<p[1] - pad, p[2] - pad>>]
        ELSE TransparentPixel]

\* ((1.0 - dist / radius) * 255.0) as u8 for dist = sqrt(d2) <= radius: the
\* largest a with 255 * dist <= radius * (255 - a)
HaloAlpha(d2, radius) ==
    CHOOSE a \in 0..MaxByte :
        /\ MaxByte * MaxByte * d2 <= radius * radius * (MaxByte - a) * (MaxByte - a)
        /\ \A b \in (a + 1)..MaxByte :
              MaxByte * MaxByte * d2 > radius * radius * (MaxByte - b) * (MaxByte - b)

\* the pixels add_white_outline takes for opaque
CountsAsOpaque(px) == px.a > 200

\* squared distances from p to the opaque pixels of the box around it
OpaqueDist2(rgba, w, h, p, radius) ==
    {(p[1] - n[1]) * (p[1] - n[1]) + (p[2] - n[2]) * (p[2] - n[2]) :
        n \in {q \in Cells(w, h) :
                 /\ Abs(q[1] - p[1]) <= radius /\ Abs(q[2] - p[2]) <= radius
                 /\ CountsAsOpaque(rgba[q])}}

\* add_white_outline
AddWhiteOutline(rgba, w, h, radius) ==
    [p \in Cells(w, h) |->
        IF rgba[p].a > 0 THEN rgba[p]
        ELSE LET ds == OpaqueDist2(rgba, w, h, p, radius)
                 within == {d \in ds : d <= radius * radius}
             IN  IF within = {} THEN rgba[p]
                 ELSE LET min_dist2 == CHOOSE d \in within : \A e \in within : d <= e
                          alpha == HaloAlpha(min_dist2, radius)
                      IN  IF alpha > 0 THEN [c |-> MaxByte, a |-> alpha] ELSE rgba[p]]

\* capture_full_cursor, monochrome branch: the image that is encoded
MonochromeCapture(mask) ==
    LET m == MonochromeCursorRgba(mask)
    IN  IF m.has_xor
        THEN [has_xor |-> TRUE,
              width |-> MaskWidth + 2 * XOR_PAD, height |-> MaskHeight + 2 * XOR_PAD,
              rgba |-> AddWhiteOutline(ExpandCanvas(m.rgba, MaskWidth, MaskHeight, XOR_PAD),
                                       MaskWidth + 2 * XOR_PAD, MaskHeight + 2 * XOR_PAD,
                                       XOR_PAD)]
        ELSE [has_xor |-> FALSE, width |-> MaskWidth, height |-> MaskHeight, rgba |-> m.rgba]

OutlineCall ==
    /\ fnOut.pc = "idle"
    /\ fnOut' = [pc |-> "done", val |-> MonochromeCapture(fnIn)]

OutlineNext == OutlineCall /\ FnFrame

OutlineSpec == FnInit(MonoMasks) /\ [][OutlineNext]_vars

(***************************************************************************)
(* capture_full_cursor (windows.rs): the cache entry built from a cursor.  *)
(* A frame is named by its content; an encoded image is the sequence of    *)
(* the frames given to the encoder with their timestamps.                  *)
(***************************************************************************)
\* windows.rs:30
ANIM_FRAME_DELAY_MS == 60

\* the lists probe_animation_frames_with_first returns
ProbedFrames == UNION {[1..n -> FrameContents] : n \in 1..MAX_ANIM_FRAMES}

\* what the OS reports of the cursor being captured; has_xor is the detection
\* on the mask (monochrome) or on the first rendered frame (colour)
CursorShapes ==
    [monochrome : BOOLEAN, has_xor : BOOLEAN, frames : ProbedFrames,
     width : {16, 32}, height : {32}, hotspot_x : {0, 7}, hotspot_y : {0},
     encode_ok : BOOLEAN]

\* encode_static_webp
EncodeStaticWebp(rgba) == <<[rgba |-> rgba, timestamp_ms |-> 0]>>

\* encode_animated_webp
EncodeAnimatedWebp(frames, frame_delay_ms) ==
    [i \in 1..Len(frames) |-> [rgba |-> frames[i], timestamp_ms |-> (i - 1) * frame_delay_ms]]

\* the static cache entry with the canvas expanded and outlined
PaddedCursor(shape, rgba) ==
    [kind |-> "cursor",
     webp_data |-> EncodeStaticWebp([outlined |-> rgba, pad |-> XOR_PAD]),
     width |-> shape.width + 2 * XOR_PAD, height |-> shape.height + 2 * XOR_PAD,
     hotspot_x |-> shape.hotspot_x + XOR_PAD, hotspot_y |-> shape.hotspot_y + XOR_PAD,
     is_animated |-> FALSE, frame_count |-> 1, frame_delay_ms |-> 0]

\* the static cache entry of the image as rendered
PlainCursor(shape, rgba) ==
    [kind |-> "cursor",
     webp_data |-> EncodeStaticWebp([outlined |-> rgba, pad |-> 0]),
     width |-> shape.width, height |-> shape.height,
     hotspot_x |-> shape.hotspot_x, hotspot_y |-> shape.hotspot_y,
     is_animated |-> FALSE, frame_count |-> 1, frame_delay_ms |-> 0]

\* the animated cache entry
AnimatedCursor(shape) ==
    [kind |-> "cursor",
     webp_data |-> EncodeAnimatedWebp(shape.frames, ANIM_FRAME_DELAY_MS),
     width |-> shape.width, height |-> shape.height,
     hotspot_x |-> shape.hotspot_x, hotspot_y |-> shape.hotspot_y,
     is_animated |-> TRUE, frame_count |-> Len(shape.frames),
     frame_delay_ms |-> ANIM_FRAME_DELAY_MS]

IsStaticNever(frames) == Len(frames) < 1

\* frames.len() <= 1
IsStatic(frames) == Len(frames) <= 1

\* capture_full_cursor
CaptureFullCursor(shape) ==
    IF ~shape.encode_ok THEN [kind |-> "err"]
    ELSE IF shape.monochrome
    THEN IF shape.has_xor THEN PaddedCursor(shape, shape.frames[1])
         ELSE PlainCursor(shape, shape.frames[1])
    ELSE IF IsStatic(shape.frames)
    THEN IF shape.has_xor THEN PaddedCursor(shape, shape.frames[1])
         ELSE PlainCursor(shape, shape.frames[1])
    ELSE AnimatedCursor(shape)

CaptureFullCall ==
    /\ fnOut.pc = "idle"
    /\ fnOut' = [pc |-> "done", val |-> CaptureFullCursor(fnIn)]

CaptureFullNext == CaptureFullCall /\ FnFrame

CaptureFullSpec == FnInit(CursorShapes) /\ [][CaptureFullNext]_vars

(***************************************************************************)
(* The capture loops and their channels (run_cursor_capture,               *)
(* run_clipboard_capture).  A loop leaves only when a send fails.          *)
(***************************************************************************)
\* tx.send(event).await.is_err() { break }
AfterSend(l, sent) ==
    loops' = IF sent /\ ~loops[l].rx_open
             THEN [loops EXCEPT ![l].running = FALSE] ELSE loops

\* one pass of run_cursor_capture: capture_cursor, then the send of its event
CursorLoopPass(capture_cursor) ==
    /\ loops["cursor"].running
    /\ capture_cursor
    /\ AfterSend("cursor", last'.ev # NoEvent)

\* run_clipboard_capture: the read of a pass
ClipLoopRead ==
    /\ loops["clipboard"].running
    /\ PollRead
    /\ UNCHANGED loops

\* run_clipboard_capture: the skips and the send of a pass
ClipLoopDecide ==
    /\ loops["clipboard"].running
    /\ PollDecide
    /\ AfterSend("clipboard", clipLast'.emitted)

\* the receiver of a loop's channel is dropped or closed
CloseReceiver(l) ==
    /\ loops[l].rx_open
    /\ loops' = [loops EXCEPT ![l].rx_open = FALSE]

LoopRest ==
    UNCHANGED <<histVars, cacheVars, orderVars, broadcast_capacity, peer_connections,
                mainVars, fnVars>>
CursorSide == LoopRest /\ UNCHANGED clipVars
ClipSide == LoopRest /\ UNCHANGED coreVars

CursorLoopStep ==
    \/ CursorLoopPass(CaptureCursorWindows) /\ CursorSide
    \/ CursorLoopPass(CaptureCursorLinux) /\ CursorSide
    \/ CursorLoopPass(CaptureCursorMacos) /\ CursorSide

ClipLoopStep ==
    \/ ClipLoopRead /\ ClipSide
    \/ ClipLoopDecide /\ ClipSide

LoopNext ==
    \/ OsSetCursor /\ CursorSide /\ UNCHANGED loops
    \/ OsToggleVisible /\ CursorSide /\ UNCHANGED loops
    \/ CursorLoopPass(CaptureCursorWindows) /\ CursorSide
    \/ CursorLoopPass(CaptureCursorLinux) /\ CursorSide
    \/ CursorLoopPass(CaptureCursorMacos) /\ CursorSide
    \/ HostCopy /\ ClipSide /\ UNCHANGED loops
    \/ ClipLoopRead /\ ClipSide
    \/ ClipLoopDecide /\ ClipSide
    \/ \E l \in CaptureLoops : CloseReceiver(l) /\ LoopRest /\ UNCHANGED <<coreVars, clipVars>>

\* the interval timers of the loops keep firing: a pass that can be made is made
LoopSpec == Init /\ [][LoopNext]_vars /\ WF_vars(CursorLoopStep) /\ WF_vars(ClipLoopStep)

(***************************************************************************)
(* create_scaled_cursor_message (mod.rs): the CursorData built from a      *)
(* cache entry for a client's dpr.                                         *)
(***************************************************************************)
\* cache entries: what capture_full_cursor built, under the id it was cached by
CachedSamples ==
    {[id |-> i, entry |-> CaptureFullCursor(sh)] :
        i \in 1..2,
        sh \in [monochrome : {FALSE}, has_xor : BOOLEAN,
                frames : {<<1>>, <<1, 2>>, <<2, 1, 3>>},
                width : {16, 32}, height : {32}, hotspot_x : {0, 7}, hotspot_y : {0},
                encode_ok : {TRUE}]}

\* a cache entry, get_dpi_scale() and the dpr of two clients
MessageInputs ==
    [cached : CachedSamples, server_scale : {1000, 1250},
     dpr_a : {100, 1000, 1250, 2000}, dpr_b : {100, 1000, 1250, 2000}]

\* a message that carries the image only when the size is the cached one
CreateResizedCursorMessage(cached, client_dpr, server_scale) ==
    LET target == ScaledCursor([width |-> cached.entry.width, height |-> cached.entry.height,
                                hotspot_x |-> cached.entry.hotspot_x,
                                hotspot_y |-> cached.entry.hotspot_y,
                                dpr |-> client_dpr, server_scale |-> server_scale])
    IN  [type |-> "CursorData", cursor_id |-> cached.id,
         image_data |-> IF target.width = cached.entry.width
                        THEN cached.entry.webp_data ELSE <<>>,
         width |-> target.width, height |-> target.height,
         hotspot_x |-> target.hotspot_x, hotspot_y |-> target.hotspot_y,
         dpi_scale |-> client_dpr, is_animated |-> cached.entry.is_animated,
         frame_delay_ms |-> cached.entry.frame_delay_ms]

\* create_scaled_cursor_message
CreateScaledCursorMessage(cached, client_dpr, server_scale) ==
    LET target == ScaledCursor([width |-> cached.entry.width, height |-> cached.entry.height,
                                hotspot_x |-> cached.entry.hotspot_x,
                                hotspot_y |-> cached.entry.hotspot_y,
                                dpr |-> client_dpr, server_scale |-> server_scale])
    IN  [type |-> "CursorData", cursor_id |-> cached.id,
         image_data |-> cached.entry.webp_data,
         width |-> target.width, height |-> target.height,
         hotspot_x |-> target.hotspot_x, hotspot_y |-> target.hotspot_y,
         dpi_scale |-> client_dpr, is_animated |-> cached.entry.is_animated,
         frame_delay_ms |-> cached.entry.frame_delay_ms]

\* the message for the first client
MessageForA ==
    /\ fnOut.pc = "idle"
    /\ fnOut' = [pc |-> "run",
                 val |-> <<CreateScaledCursorMessage(fnIn.cached, fnIn.dpr_a,
                                                     fnIn.server_scale)>>]

\* the message for the second client
MessageForB ==
    /\ fnOut.pc = "run"
    /\ fnOut' = [pc |-> "done",
                 val |-> Append(fnOut.val,
                                CreateScaledCursorMessage(fnIn.cached, fnIn.dpr_b,
                                                          fnIn.server_scale))]

MessageNext ==
    \/ MessageForA /\ FnFrame
    \/ MessageForB /\ FnFrame

MessageSpec == FnInit(MessageInputs) /\ [][MessageNext]_vars

(***************************************************************************)
(* Inbound binary frames (webrtc_server.rs on_message, binary branch, and  *)
(* handle_client_clipboard).                                               *)
(***************************************************************************)
\* the ClipboardData of a frame: its content_type, the content its payload
\* (or filenames) holds, whether the payload is valid UTF-8, its content_hash
ClipData(content_type, content, utf8, hash) ==
    [content_type |-> content_type, body |-> content, utf8 |-> utf8, content_hash |-> hash]

\* a binary frame: whether CursorMessage::decode succeeds, the type and the
\* payload variant of the decoded message, and the ClipboardData if it has one
BinaryFrame(decodes, type, payload, clip) ==
    [decodes |-> decodes, type |-> type, payload |-> payload, clip |-> clip]

\* clipboard pushes as a client builds them
ClipboardPushes ==
    UNION {{BinaryFrame(TRUE, "Clipboard", "ClipboardData",
                        ClipData(content.kind, content, TRUE, hash)) :
               hash \in {Blake3(content), [k |-> "bogus", d |-> "", e |-> ""]}} :
           content \in ClientContents}

\* frames that are not a clipboard push the agent can apply
OtherFrames ==
    LET content == TextContent("bar")
        good == ClipData("Text", content, TRUE, Blake3(content))
    IN  {BinaryFrame(FALSE, "Clipboard", "ClipboardData", good),
         BinaryFrame(TRUE, "CursorData", "ClipboardData", good),
         BinaryFrame(TRUE, "Heartbeat", "None", good),
         BinaryFrame(TRUE, "Clipboard", "None", good),
         BinaryFrame(TRUE, "Clipboard", "CursorData", good),
         BinaryFrame(TRUE, "Clipboard", "ClipboardData",
                     ClipData("Unknown", content, TRUE, Blake3(content))),
         BinaryFrame(TRUE, "Clipboard", "ClipboardData",
                     ClipData("Text", content, FALSE, Blake3(content)))}

BinaryFrames == ClipboardPushes \cup OtherFrames

\* a handler that hands every decoded ClipboardData on, whatever the type
DecodesWithClipData(frame) == frame.decodes /\ frame.payload = "ClipboardData"

\* on_message: decode Ok, type Clipboard, payload ClipboardData
DecodesAsClipboard(frame) ==
    frame.decodes /\ frame.type = "Clipboard" /\ frame.payload = "ClipboardData"

NoContent == [kind |-> "None", data |-> "", enc |-> "-"]

\* handle_client_clipboard: the ClipboardContent built from the ClipboardData
ClientContentOf(clip) ==
    IF clip.content_type = "Text" THEN (IF clip.utf8 THEN clip.body ELSE NoContent)
    ELSE IF clip.content_type \in {"Image", "Files"} THEN clip.body
    ELSE NoContent

\* an apply that goes on to record the hash although the write failed
ApplyFailedThenRecord(c, frame) ==
    /\ clipLast' = ClipStep("apply_failed", FALSE, NoRead)
    /\ last' = Step("binary", c, frame, <<>>, TRUE, "apply_failed")
    /\ applyPc' = "record"
    /\ applyArg' = frame.clip.content_hash
    /\ UNCHANGED <<hostClip, pollRead>>

\* apply_to_clipboard: Clipboard::new, the PNG decode or the write failed and
\* the ? operator returns the error: nothing is written, nothing recorded
ApplyFailed(c, frame) ==
    /\ clipLast' = ClipStep("apply_failed", FALSE, NoRead)
    /\ last' = Step("binary", c, frame, <<>>, TRUE, "apply_failed")
    /\ UNCHANGED <<hostClip, applyPc, applyArg, pollRead>>

\* dc.on_message with a binary frame, up to the clipboard write
OnMessageBinary(c, frame) ==
    /\ session[c] = "running"
    /\ applyPc = "idle"
    /\ IF DecodesAsClipboard(frame) /\ ClientContentOf(frame.clip) # NoContent THEN
           \E ok \in BOOLEAN :
             IF ok THEN
                 /\ hostClip' = AppliedClip(ClientContentOf(frame.clip))
                 /\ applyPc' = "record"
                 /\ applyArg' = frame.clip.content_hash
                 /\ clipLast' = ClipStep("set", FALSE, NoRead)
                 /\ pollRead' = IF pollPc = "decide"
                                THEN [pollRead EXCEPT !.quiet = FALSE] ELSE pollRead
                 /\ last' = Step("binary", c, frame, <<>>, TRUE, "written")
             ELSE
                 ApplyFailed(c, frame)
       ELSE
           /\ last' = Step("binary", c, frame, <<>>, TRUE, "ignored")
           /\ UNCHANGED <<hostClip, applyPc, applyArg, pollRead, clipLast>>
    /\ UNCHANGED <<LAST_SET_HASH, last_broadcast_hash, pollPc>>
    /\ UNCHANGED <<platform, os, captureState, sessState, rx_broadcast>>

\* a step that runs no handler of a session
NoHandler ==
    /\ last' = Idle
    /\ UNCHANGED <<platform, os, captureState, sessState, rx_broadcast>>

InboundRest == UNCHANGED <<histVars, auxVars>>

InboundNext ==
    \/ \E c \in SpecClients : OnDataChannel(c) /\ CoreFrame
    \/ \E c \in SpecClients : OnOpen(c) /\ CoreFrame
    \/ \E c \in SpecClients, frame \in BinaryFrames : OnMessageBinary(c, frame) /\ InboundRest
    \/ ApplyRecord /\ NoHandler /\ InboundRest
    \/ HostCopy /\ NoHandler /\ InboundRest

InboundSpec == SpecInit /\ [][InboundNext]_vars

(***************************************************************************)
(* send_clipboard_event (webrtc_server.rs) as the sender task of one       *)
(* client applies it to the clipboard events it receives.                  *)
(***************************************************************************)
\* content hashes of the events run_clipboard_capture emits
ClipHashes ==
    {Blake3(TextContent(t)) : t \in Texts} \cup {Blake3(ImageContent(px, "agent")) : px \in Pixels}

\* a clipboard event as the sender task meets it: its content_hash, whether
\* msg.encode succeeds and whether dc.send succeeds
ClipEvents == [content_hash : ClipHashes, encode_ok : BOOLEAN, send_ok : BOOLEAN]

\* the events a sender task receives, in order
ClipEventRuns(n) == UNION {[1..k -> ClipEvents] : k \in 1..n}

\* a sender that has no record of what the client has
AlreadyHasNever(state, event) == FALSE

\* state.last_clipboard_hash.as_deref() == Some(&event.content_hash)
AlreadyHas(state, event) == state.last_clipboard_hash = event.content_hash

\* send_clipboard_event: the state after it, the hashes of the messages the
\* peer was sent, and its result
SendClipboardEvent(state, event) ==
    IF AlreadyHas(state, event) THEN [state |-> state, tx |-> <<>>, res |-> "Ok"]
    ELSE IF ~event.encode_ok THEN [state |-> state, tx |-> <<>>, res |-> "Ok"]
    ELSE IF ~event.send_ok THEN [state |-> state, tx |-> <<>>, res |-> "Err"]
    ELSE [state |-> [last_clipboard_hash |-> event.content_hash],
          tx |-> <<event.content_hash>>, res |-> "Ok"]

\* on_data_channel builds the state and on_open starts the sender task
ClipSenderStart ==
    /\ fnOut.pc = "idle"
    /\ fnOut' = [pc |-> "run",
                 val |-> [state |-> [last_clipboard_hash |-> NoHash], sent |-> <<>>, step |-> 1]]

\* the sender task receives its next event; an Err ends the task
ClipSenderRecv ==
    /\ fnOut.pc = "run"
    /\ LET v == fnOut.val
           r == SendClipboardEvent(v.state, fnIn[v.step])
       IN  fnOut' = [pc |-> IF r.res = "Err" \/ v.step = Len(fnIn) THEN "done" ELSE "run",
                     val |-> [state |-> r.state, sent |-> v.sent \o r.tx, step |-> v.step + 1]]

ClipSenderNext ==
    \/ ClipSenderStart /\ FnFrame
    \/ ClipSenderRecv /\ FnFrame

ClipSenderSpec == FnInit(ClipEventRuns(MaxClipEvents)) /\ [][ClipSenderNext]_vars

(***************************************************************************)
(* The capture loop with the hide-and-show history.  In this specification *)
(* scn is 0, or the id that the last CursorHidden hid (no tick has seen a  *)
(* cursor since), or minus that id once the next tick that saw a cursor    *)
(* emitted CursorChanged for the same id.                                  *)
(***************************************************************************)
ObserveReshow ==
    scn' =
        IF last'.op = "tick" /\ last'.ev = CursorHidden THEN LAST_CURSOR_ID
        ELSE IF last'.op = "tick" /\ hideEmitted /\ last'.ev.kind = "CursorChanged"
             THEN (IF last'.ev.id = scn THEN -scn ELSE 0)
        ELSE IF TickSawCursor THEN 0
        ELSE scn

ReshowFrame == ObserveHide /\ ObserveReshow /\ UNCHANGED <<dataEpoch, clipVars, auxVars>>

ReshowNext ==
    \/ OsSetCursor /\ ReshowFrame
    \/ OsToggleVisible /\ ReshowFrame
    \/ OsToggleEdge /\ ReshowFrame
    \/ CaptureCursorWindows /\ ReshowFrame
    \/ CaptureCursorLinux /\ ReshowFrame
    \/ CaptureCursorMacos /\ ReshowFrame

ReshowSpec == Init /\ [][ReshowNext]_vars

(***************************************************************************)
(* The two handlers of one client at the grain of their await points       *)
(* (webrtc_server.rs): the sender task's rx.recv() arm and the DPR branch  *)
(* of on_message, both under client_state.lock().  The call state holds    *)
(* the ClientState, the mutex, the position and the message of each        *)
(* handler, and for each id the dpr of the CursorData it was inserted for. *)
(***************************************************************************)
\* the CursorChanged ids the sender task receives (all cached), the ratios
\* the client's text frames carry, and get_last_cursor_id()
LockInputs ==
    [events : [1..MaxLockEvents -> Ids],
     dprs : [1..MaxLockEvents -> {DefaultDpr, 1020, 1500}],
     last_id : Ids \cup {NoId}]

NoMsg == [type |-> "none", cursor_id |-> NoId, dpi_scale |-> 0]

\* handlers that do not wait for the mutex
LockIgnored(v) == TRUE

\* client_state.lock().await returns
LockFree(v) == v.lock = "free"

\* the guard is dropped
Release(v, who) == IF v.lock = who THEN "free" ELSE v.lock

\* on_data_channel built the ClientState and on_open spawned the sender task
LockStart ==
    /\ fnOut.pc = "idle"
    /\ fnOut' = [pc |-> "run",
                 val |-> [dpr |-> DefaultDpr, sent_cursor_ids |-> {}, lock |-> "free",
                          spc |-> "recv", sn |-> 1, smsg |-> NoMsg,
                          hpc |-> "idle", hn |-> 1, hmsg |-> NoMsg,
                          built |-> [id \in Ids |-> 0]]]

\* sender task: rx.recv() returned an event, client_state.lock().await
SenderLock ==
    /\ fnOut.pc = "run"
    /\ LET v == fnOut.val IN
        /\ v.spc = "recv" /\ v.sn <= MaxLockEvents
        /\ LockFree(v)
        /\ fnOut' = [fnOut EXCEPT !.val.lock = "sender", !.val.spc = "locked"]

\* send_cursor_event: the message is chosen and built from state.dpr
SenderBuild ==
    /\ fnOut.pc = "run"
    /\ LET v == fnOut.val
           id == fnIn.events[v.sn]
       IN
        /\ v.spc = "locked"
        /\ fnOut' = [fnOut EXCEPT
                !.val.smsg = IF id \in v.sent_cursor_ids THEN SignalMsg(id)
                             ELSE CursorDataMsg(id, v.dpr),
                !.val.spc = "send"]

\* send_cursor_event: dc.send(..).await; Err ends the task
SenderSend ==
    /\ fnOut.pc = "run"
    /\ LET v == fnOut.val IN
        /\ v.spc = "send"
        /\ \E ok \in BOOLEAN :
            IF ~ok THEN
                fnOut' = [fnOut EXCEPT !.val.spc = "done", !.val.lock = Release(v, "sender")]
            ELSE IF v.smsg.type = "CursorData" THEN
                fnOut' = [fnOut EXCEPT !.val.spc = "insert"]
            ELSE
                fnOut' = [fnOut EXCEPT !.val.spc = "recv", !.val.sn = v.sn + 1,
                                       !.val.lock = Release(v, "sender")]

\* send_cursor_event: sent_cursor_ids.insert, then the guard is dropped
SenderInsert ==
    /\ fnOut.pc = "run"
    /\ LET v == fnOut.val IN
        /\ v.spc = "insert"
        /\ fnOut' = [fnOut EXCEPT
                !.val.sent_cursor_ids = v.sent_cursor_ids \cup {v.smsg.cursor_id},
                !.val.built = [v.built EXCEPT ![v.smsg.cursor_id] = v.smsg.dpi_scale],
                !.val.spc = "recv", !.val.sn = v.sn + 1,
                !.val.lock = Release(v, "sender")]

\* on_message: a text frame with a ratio arrived, cs.lock().await
MsgLock ==
    /\ fnOut.pc = "run"
    /\ LET v == fnOut.val IN
        /\ v.hpc = "idle" /\ v.hn <= MaxLockEvents
        /\ LockFree(v)
        /\ fnOut' = [fnOut EXCEPT !.val.lock = "handler", !.val.hpc = "locked"]

\* on_message: the acceptance test, state.dpr = new_dpr, clear(), and the
\* CursorData for the last cursor id built from state.dpr
MsgUpdate ==
    /\ fnOut.pc = "run"
    /\ LET v == fnOut.val
           new_dpr == fnIn.dprs[v.hn]
       IN
        /\ v.hpc = "locked"
        /\ IF ~DprAccepted([dpr |-> v.dpr], new_dpr) THEN
               fnOut' = [fnOut EXCEPT !.val.hpc = "idle", !.val.hn = v.hn + 1,
                                      !.val.lock = Release(v, "handler")]
           ELSE IF fnIn.last_id = NoId THEN
               fnOut' = [fnOut EXCEPT !.val.dpr = new_dpr, !.val.sent_cursor_ids = {},
                                      !.val.built = [id \in Ids |-> 0],
                                      !.val.hpc = "idle", !.val.hn = v.hn + 1,
                                      !.val.lock = Release(v, "handler")]
           ELSE
               fnOut' = [fnOut EXCEPT !.val.dpr = new_dpr, !.val.sent_cursor_ids = {},
                                      !.val.built = [id \in Ids |-> 0],
                                      !.val.hmsg = CursorDataMsg(fnIn.last_id, new_dpr),
                                      !.val.hpc = "send"]

\* on_message: let _ = dc.send(..).await
MsgSend ==
    /\ fnOut.pc = "run"
    /\ fnOut.val.hpc = "send"
    /\ fnOut' = [fnOut EXCEPT !.val.hpc = "insert"]

\* on_message: sent_cursor_ids.insert(id), then the guard is dropped
MsgInsert ==
    /\ fnOut.pc = "run"
    /\ LET v == fnOut.val IN
        /\ v.hpc = "insert"
        /\ fnOut' = [fnOut EXCEPT
                !.val.sent_cursor_ids = v.sent_cursor_ids \cup {v.hmsg.cursor_id},
                !.val.built = [v.built EXCEPT ![v.hmsg.cursor_id] = v.hmsg.dpi_scale],
                !.val.hpc = "idle", !.val.hn = v.hn + 1,
                !.val.lock = Release(v, "handler")]

LockNext ==
    \/ LockStart /\ FnFrame
    \/ SenderLock /\ FnFrame
    \/ SenderBuild /\ FnFrame
    \/ SenderSend /\ FnFrame
    \/ SenderInsert /\ FnFrame
    \/ MsgLock /\ FnFrame
    \/ MsgUpdate /\ FnFrame
    \/ MsgSend /\ FnFrame
    \/ MsgInsert /\ FnFrame

LockSpec == FnInit(LockInputs) /\ [][LockNext]_vars

(***************************************************************************)
(* The entries of the cursor cache                                         *)
(***************************************************************************)
\* xHotspot/yHotspot (xhot/yhot on X11) of the cursor behind an OS handle: two
\* handles with the same pixels need not share the hotspot
HotspotOf(h) == h

\* the CachedCursor a full capture of handle h builds: webp_data is the
\* lossless encoding of the pixels; the id is computed from the pixels alone
CachedOf(h) ==
    [id |-> CursorIdOf(PixelsOf(h)), webp_data |-> PixelsOf(h), hotspot |-> HotspotOf(h)]

\* HashMap::insert on every call, replacing the entry of a cached id
CacheCursorReplacing(map, cached) ==
    {[cache |-> [k \in DOMAIN map \cup {cached.id} |->
                    IF k = cached.id THEN cached ELSE map[k]],
      is_new |-> cached.id \notin DOMAIN map]}

\* cache_cursor on the map itself: the (cache, is_new) outcomes of a call
CacheCursor(map, cached) ==
    IF cached.id \in DOMAIN map THEN {[cache |-> map, is_new |-> FALSE]}
    ELSE LET grown == [k \in DOMAIN map \cup {cached.id} |->
                          IF k = cached.id THEN cached ELSE map[k]]
         IN  IF Cardinality(DOMAIN grown) > CacheMax
             THEN {[cache |-> [k \in DOMAIN grown \ E |-> grown[k]], is_new |-> TRUE] :
                     E \in {S \in SUBSET DOMAIN grown : Cardinality(S) = CacheTrim}}
             ELSE {[cache |-> grown, is_new |-> TRUE]}

\* the map behind CURSOR_CACHE through a tick: a capture calls cache_cursor
\* with what it built from the cursor on screen, any other tick leaves it
ObserveCache ==
    IF last'.op = "tick" /\ last'.res = "captured"
    THEN \E r \in CacheCursor(cacheEntries, CachedOf(os.handle)) :
            /\ DOMAIN r.cache = CURSOR_CACHE'
            /\ cacheEntries' = r.cache
            /\ cacheCall' = [cached |-> CachedOf(os.handle), is_new |-> r.is_new,
                             handle |-> os.handle]
    ELSE UNCHANGED cacheVars

CacheFrame ==
    ObserveCache /\ UNCHANGED <<histVars, clipVars, orderVars, broadcast_capacity,
                                peer_connections, mainVars, fnVars, loops>>

CacheNext ==
    \/ OsSetCursor /\ CacheFrame
    \/ OsToggleVisible /\ CacheFrame
    \/ OsToggleEdge /\ CacheFrame
    \/ CaptureCursorWindows /\ CacheFrame
    \/ CaptureCursorLinux /\ CacheFrame
    \/ CaptureCursorMacos /\ CacheFrame

CacheSpec == Init /\ [][CacheNext]_vars

(***************************************************************************)
(* The cursor cache                                                        *)
(***************************************************************************)
\* the capture loop has just cached a capture and emitted CursorChanged
Captured == last.op = "tick" /\ last.res = "captured"

\* C11: when cache_cursor returns for a capture, the id it returns is in the
\* cache, so the CursorChanged(id) emitted next can be served from it.
C11_NewIdCachedOnReturn ==
    [][(last'.op = "tick" /\ last'.res = "captured")
          => last'.ev.id \in CURSOR_CACHE']_vars

\* C12: outside cache_cursor's critical section the cache never holds more
\* than its capacity (50 entries in the source).
C12_CacheWithinCapacity == Cardinality(CURSOR_CACHE) <= CacheMax

\* a capture whose insert overflowed the cache: the trim has run (it took the
\* new id with it) and left the cache at its size after a trim
C12_Witness ==
    /\ Captured
    /\ last.ev.id \notin CURSOR_CACHE
    /\ Cardinality(CURSOR_CACHE) = CacheMax + 1 - CacheTrim

\* the key set of the model is the key set of the map
CacheKeysAgree == DOMAIN cacheEntries = CURSOR_CACHE

\* C13: a call of cache_cursor with a cursor that cache_cursor has just been
\* called with changes nothing and reports is_new = false: inserting the same
\* cursor twice yields the cache of inserting it once.
C13_InsertTwiceIsInsertOnce ==
    [][(last'.op = "tick" /\ last'.res = "captured")
          => \A r \in CacheCursor(cacheEntries', cacheCall'.cached) :
                r.cache = cacheEntries' /\ ~r.is_new]_vars

\* C14: the entry stored under an id stays as it was inserted for as long as
\* the id stays in the cache.
C14_EntryNeverChanges ==
    [][\A id \in DOMAIN cacheEntries \cap DOMAIN cacheEntries' :
          cacheEntries'[id] = cacheEntries[id]]_vars

\* cache_cursor was called for a cached id with a cursor that differs from the
\* stored entry (same pixels, another hotspot), and the stored entry is kept
C14_Witness ==
    /\ Captured
    /\ ~cacheCall.is_new
    /\ cacheCall.cached.id \in DOMAIN cacheEntries
    /\ cacheEntries[cacheCall.cached.id] # cacheCall.cached

\* C15: the id is a function of the captured pixels alone: the capture just
\* made has the id of every cached capture of the same pixels, and no two
\* entries of the cache hold the same pixels.
C15_IdIsFunctionOfPixels ==
    \A j \in DOMAIN cacheEntries :
        /\ cacheEntries[j].webp_data = cacheCall.cached.webp_data => cacheCall.cached.id = j
        /\ \A k \in DOMAIN cacheEntries :
              cacheEntries[j].webp_data = cacheEntries[k].webp_data => j = k

\* the cursor captured last came from another OS handle than the cached entry
\* of the same pixels, and collapsed onto that entry
C15_Witness ==
    /\ Captured
    /\ \E j \in DOMAIN cacheEntries :
          /\ cacheEntries[j].webp_data = cacheCall.cached.webp_data
          /\ HotspotOf(cacheCall.handle) # cacheEntries[j].hotspot
          /\ PixelsOf(cacheCall.handle) = cacheEntries[j].webp_data

(***************************************************************************)
(* Fan-out                                                                 *)
(***************************************************************************)
\* every receiver holds as many emit numbers as events
StampsAgree == \A c \in Clients : Len(rxStamp[c]) = Len(rx_broadcast[c].q)

\* C16: a session that fell behind the broadcast channel keeps running with
\* the events the channel still holds for it, and a tick that emits an event
\* hands it to every subscribed receiver, however far behind any of them is:
\* no receiver holds back the capture loop or the other sessions.
C16_LagNeverBlocks ==
    [][/\ last'.op = "lagged" =>
            /\ session'[last'.c] = "running"
            /\ rx_broadcast'[last'.c].q = rx_broadcast[last'.c].q
            /\ ~rx_broadcast'[last'.c].lagged
       /\ (last'.op = "tick" /\ last'.ev # NoEvent) =>
            \A c \in Clients :
                Subscribed(c) =>
                    /\ rx_broadcast'[c].q # <<>>
                    /\ rx_broadcast'[c].q[Len(rx_broadcast'[c].q)] = last'.ev]_vars

\* session A has just met RecvError::Lagged: it runs on with events to
\* receive, and session B has been sent the two newest events meanwhile
C16_Witness ==
    /\ last.op = "lagged" /\ last.c = "A"
    /\ session["A"] = "running"
    /\ rx_broadcast["A"].q # <<>>
    /\ sentLast["B"] = emitSeq
    /\ sentPrev["B"] = emitSeq - 1
    /\ sentPrev["B"] > 0

\* C17: the events a client is sent messages for are in the order the capture
\* loop emitted them: each message is for an event emitted after the event of
\* the message before it.
C17_SentInEmitOrder ==
    \A c \in Clients : sentLast[c] > 0 => sentPrev[c] < sentLast[c]

\* a client has been sent the messages of two events emitted one after the
\* other, the second being the newest event
C17_Witness ==
    \E c \in Clients :
        /\ last.op = "event" /\ last.c = c
        /\ sentPrev[c] > 0
        /\ sentLast[c] = sentPrev[c] + 1
        /\ sentLast[c] = emitSeq
        /\ rx_broadcast[c].q = <<>>

(***************************************************************************)
(* Failed writes, retained connections, exit status                        *)
(***************************************************************************)
\* C18: a handler whose write to the data channel fails ends its session:
\* the session is stopped when the handler returns.
C18_FailedWriteEndsSession ==
    [][(last'.tx # <<>> /\ ~last'.ok) => session'[last'.c] = "stopped"]_vars

\* C19: once the sender loop of a client's session has terminated, the
\* server keeps no peer connection of that client.
C19_TerminatedSessionReleased ==
    \A c \in Clients :
        session[c] = "stopped" =>
            \A i \in 1..Len(peer_connections) : peer_connections[i] # c

\* C20: when the process has exited and one of the spawned tasks ended with
\* an error, the exit status is not 0.
C20_TaskErrorExitsNonZero ==
    (main_pc = "exited" /\ \E t \in Tasks : task[t] \in {"err", "panicked"})
        => exit_code # ExitSuccess

(***************************************************************************)
(* Frame probing                                                           *)
(***************************************************************************)
\* the cursor cycles through pairwise distinct frames, no more of them than
\* the probe can hold, and DrawIconEx renders every one of them
CyclicCursor(cur) ==
    /\ Len(cur.frames) <= MAX_ANIM_FRAMES
    /\ \A i, j \in 1..Len(cur.frames) : cur.frames[i] = cur.frames[j] => i = j
    /\ cur.failAt = 0 \/ cur.failAt >= Len(cur.frames)

\* C21: the probe renders at most MAX_ANIM_FRAMES frames (the first one
\* included) and then ends, and for a cursor that cycles through N pairwise
\* distinct frames, N <= MAX_ANIM_FRAMES, it returns those N frames in order.
C21_ProbeReturnsTheCycle ==
    /\ fnOut.pc = "run" => fnOut.val.step < MAX_ANIM_FRAMES
    /\ fnOut.pc # "idle" => fnOut.val.renders <= MAX_ANIM_FRAMES
    /\ (fnOut.pc = "done" /\ CyclicCursor(fnIn)) => fnOut.val.frames = fnIn.frames

\* the probe of a cursor with the longest cycle it can hold has ended, without
\* DrawIconEx ever failing
C21_Witness ==
    /\ fnOut.pc = "done"
    /\ CyclicCursor(fnIn)
    /\ Len(fnIn.frames) = MAX_ANIM_FRAMES
    /\ fnIn.failAt = 0
    /\ fnOut.val.renders = MAX_ANIM_FRAMES

(***************************************************************************)
(* Scaling                                                                 *)
(***************************************************************************)
\* t is x * dpr / server_scale rounded to an integer
IsRounded(t, x, c) == 2 * Abs(t * c.server_scale - x * c.dpr) <= c.server_scale

\* t is that, or 1 when the product rounds to 0
IsRoundedMin1(t, x, c) ==
    IF 2 * x * c.dpr < c.server_scale THEN t = 1 ELSE IsRounded(t, x, c)

\* C22: with s = dpr / server_scale, the CursorData carries the cached size
\* and hotspot unchanged when |s - 1| < 0.01; otherwise width and height are
\* round(w * s) and round(h * s), at least 1, and the hotspot is
\* (round(hx * s), round(hy * s)); dpr 2.0 on a server of scale 1.0 doubles
\* all four.
C22_ScaledByDprOverServerScale ==
    fnOut.pc = "done" =>
        LET c == fnIn
            m == fnOut.val
        IN  /\ 100 * Abs(c.dpr - c.server_scale) < c.server_scale =>
                /\ m.width = c.width /\ m.height = c.height
                /\ m.hotspot_x = c.hotspot_x /\ m.hotspot_y = c.hotspot_y
            /\ 100 * Abs(c.dpr - c.server_scale) >= c.server_scale =>
                /\ IsRoundedMin1(m.width, c.width, c)
                /\ IsRoundedMin1(m.height, c.height, c)
                /\ IsRounded(m.hotspot_x, c.hotspot_x, c)
                /\ IsRounded(m.hotspot_y, c.hotspot_y, c)
            /\ (c.dpr = 2 * DefaultDpr /\ c.server_scale = DefaultDpr) =>
                /\ m.width = 2 * c.width /\ m.height = 2 * c.height
                /\ m.hotspot_x = 2 * c.hotspot_x /\ m.hotspot_y = 2 * c.hotspot_y

\* a 3x32 cursor with hotspot (3, 7) was scaled by 1.25: 3.75 rounds to 4
C22_Witness ==
    /\ fnOut.pc = "done"
    /\ fnIn.dpr * 4 = fnIn.server_scale * 5
    /\ fnIn.width = 3 /\ fnIn.hotspot_x = 3 /\ fnIn.hotspot_y = 7
    /\ fnOut.val.width = 4 /\ fnOut.val.hotspot_x = 4 /\ fnOut.val.hotspot_y = 9

(***************************************************************************)
(* Text frames                                                             *)
(***************************************************************************)
\* C23: every client's dpr lies in (0, 10]; it is 1.0 when the data channel
\* is announced.
C23_DprInRange ==
    \A c \in Clients :
        /\ client_state[c].dpr > 0
        /\ client_state[c].dpr <= 10 * DefaultDpr
        /\ last = Step("connect", c, NoEvent, <<>>, TRUE, "") =>
              client_state[c].dpr = DefaultDpr

\* a session that accepted the largest ratio, 10.0, has just turned down a
\* text frame
C23_Witness ==
    /\ last.op = "dpr" /\ last.res = "rejected" /\ last.c = "A"
    /\ client_state["A"].dpr = 10 * DefaultDpr

\* C28: a text frame changes the client's state or has a message sent only
\* when it is an accepted DPR update, that is, when it moves dpr by more than
\* 0.01 to a value in (0, 10]: after any other text frame dpr and
\* sent_cursor_ids are what they were and nothing was handed to dc.send.
C28_OtherTextFramesChangeNothing ==
    [][last'.op = "dpr" =>
          LET old == client_state[last'.c]
              new == client_state'[last'.c]
          IN  IF new.dpr = old.dpr
              THEN new = old /\ last'.tx = <<>>
              ELSE /\ new.dpr > 0 /\ new.dpr <= 10 * DefaultDpr
                   /\ Abs(new.dpr - old.dpr) > 10]_vars

\* a session that was sent CursorData and whose server holds a cached cursor
\* has turned down a text frame: the ids are still on record, nothing was sent
C28_Witness ==
    /\ last.op = "dpr" /\ last.res = "rejected" /\ last.c = "A"
    /\ last.tx = <<>>
    /\ client_state["A"].sent_cursor_ids # {}
    /\ LAST_CURSOR_ID # NoId /\ IsCached(LAST_CURSOR_ID)

(***************************************************************************)
(* Dual-background decomposition                                           *)
(***************************************************************************)
\* C24: for a pixel rendered as k on black and k + (255 - a) on white in the
\* three channels, 0 <= k <= a, the decomposition returns alpha a, and each
\* colour channel is within 1 of the straight colour 255 * k / a.
C24_AlphaExactColourWithinOne ==
    fnOut.pc = "done" =>
        LET k == fnIn.black[1]
            a == MaxByte - (fnIn.white[1] - k)
        IN  (a \in 0..MaxByte /\ k \in 0..a /\ fnIn = SyntheticPixel(k, a)) =>
                /\ fnOut.val.a = a
                /\ \A c \in {fnOut.val.r, fnOut.val.g, fnOut.val.b} :
                      Abs(c * a - MaxByte * k) <= a

\* a half-covered pixel of a mid-grey premultiplied colour was decomposed: its
\* straight colour, 255 * 100 / 128 = 199.2, came out as 199
C24_Witness ==
    /\ fnOut.pc = "done"
    /\ fnIn = SyntheticPixel(100, 128)
    /\ fnOut.val.a = 128
    /\ fnOut.val.r = 199

(***************************************************************************)
(* Inversion cursors                                                       *)
(***************************************************************************)
\* the pixel of the captured image that shows mask pixel p
Shown(p) == <<p[1] + XOR_PAD, p[2] + XOR_PAD>>

\* the visible shape of the cursor consists of inversion pixels
InversionShape(mask) ==
    /\ \E p \in DOMAIN mask : mask[p] = "invert"
    /\ \A p \in DOMAIN mask : mask[p] \in {"invert", "transparent"}

C30_XorCursorPadded ==
    (fnOut.pc = "done" /\ fnOut.val.kind = "cursor" /\ fnIn.has_xor) =>
        /\ fnOut.val.width = fnIn.width + 2 * XOR_PAD
        /\ fnOut.val.height = fnIn.height + 2 * XOR_PAD
        /\ fnOut.val.hotspot_x = fnIn.hotspot_x + XOR_PAD
        /\ fnOut.val.hotspot_y = fnIn.hotspot_y + XOR_PAD

\* C26: an animated cache entry has at least two frames and its image was
\* encoded from exactly frame_count frames, the probed ones in their order;
\* a static cache entry has frame_count 1.
C26_FrameCountMatchesEncoding ==
    (fnOut.pc = "done" /\ fnOut.val.kind = "cursor") =>
        LET c == fnOut.val
        IN  /\ c.is_animated =>
                /\ c.frame_count >= 2
                /\ Len(c.webp_data) = c.frame_count
                /\ \A i \in 1..c.frame_count :
                      /\ c.webp_data[i].rgba = fnIn.frames[i]
                      /\ \A j \in 1..(i - 1) :
                            c.webp_data[j].timestamp_ms < c.webp_data[i].timestamp_ms
            /\ ~c.is_animated => c.frame_count = 1 /\ Len(c.webp_data) = 1

C26_Witness ==
    /\ fnOut.pc = "done" /\ fnOut.val.kind = "cursor"
    /\ fnOut.val.is_animated /\ fnOut.val.frame_count = 3
    /\ fnOut.val.webp_data[2].rgba # fnOut.val.webp_data[3].rgba

(***************************************************************************)
(* The cheap path of the capture tick                                      *)
(***************************************************************************)
\* the OS identifier the previous tick recorded
RecordedIdentifier ==
    IF platform = "windows" THEN LAST_CURSOR_HANDLE
    ELSE IF platform = "linux" THEN LAST_CURSOR_SERIAL
    ELSE LAST_CURSOR_SEED

\* the cursor shows: X11 has no visibility flag, a hidden cursor is an
\* image without a visible pixel
CursorShows == IF platform = "linux" THEN PixelsOf(os.handle) # NoId ELSE os.visible

\* C29: a capture tick on which the cursor is visible and its OS identifier
\* equals the recorded one emits no event and leaves the cursor cache and
\* the last cursor id unchanged.
C29_UnchangedIdentifierSkips ==
    [][(last'.op = "tick" /\ CursorShows /\ os.handle = RecordedIdentifier)
         => /\ last'.ev = NoEvent
            /\ UNCHANGED <<CURSOR_CACHE, LAST_CURSOR_ID, rx_broadcast>>]_vars

C29_Witness ==
    /\ last.op = "tick" /\ last.res = "same"
    /\ CursorShows /\ os.handle = RecordedIdentifier
    /\ LAST_CURSOR_ID # NoId /\ LAST_CURSOR_ID \in CURSOR_CACHE

(***************************************************************************)
(* Termination of the capture loops                                        *)
(***************************************************************************)
\* C27: once the receiver of a capture loop's channel is closed, the loop
\* eventually terminates, for the cursor loop and for the clipboard loop,
\* whether or not the cursor or the clipboard changes afterwards.
C27_ClosedReceiverStopsLoop ==
    \A l \in CaptureLoops : (~loops[l].rx_open) ~> (~loops[l].running)

(***************************************************************************)
(* One encoded image for every client                                      *)
(***************************************************************************)
\* C31: the CursorData messages built from one cache entry for two client
\* dprs carry the same image_data (the cached bytes), cursor_id, is_animated
\* and frame_delay_ms.
C31_ImageIndependentOfDpr ==
    fnOut.pc = "done" =>
        LET a == fnOut.val[1]
            b == fnOut.val[2]
        IN  /\ a.image_data = fnIn.cached.entry.webp_data
            /\ b.image_data = a.image_data
            /\ b.cursor_id = a.cursor_id /\ a.cursor_id = fnIn.cached.id
            /\ b.is_animated = a.is_animated
            /\ b.frame_delay_ms = a.frame_delay_ms

C31_Witness ==
    /\ fnOut.pc = "done"
    /\ fnOut.val[1].dpi_scale # fnOut.val[2].dpi_scale
    /\ fnOut.val[1].width # fnOut.val[2].width
    /\ fnOut.val[1].is_animated

(***************************************************************************)
(* Binary frames that are not an applicable clipboard push                 *)
(***************************************************************************)
\* the frame decodes as a CursorMessage of type Clipboard with a
\* ClipboardData payload of a known content type and, for text, valid UTF-8
IsClipboardPush(frame) ==
    /\ frame.decodes
    /\ frame.type = "Clipboard"
    /\ frame.payload = "ClipboardData"
    /\ frame.clip.content_type \in {"Text", "Image", "Files"}
    /\ frame.clip.content_type = "Text" => frame.clip.utf8

\* C32: a binary frame that is not such a clipboard push leaves the host
\* clipboard, the last-applied hash and the client's session state
\* unchanged; only a frame that is one changes the host clipboard.
C32_OtherBinaryFramesChangeNothing ==
    [][(last'.op = "binary" /\ ~IsClipboardPush(last'.ev))
         => UNCHANGED <<hostClip, LAST_SET_HASH, applyPc, applyArg, client_state, session,
                        alive>>]_vars

C32_Witness ==
    /\ last.op = "binary" /\ ~IsClipboardPush(last.ev)
    /\ last.ev.decodes /\ last.ev.payload = "ClipboardData"
    /\ LAST_SET_HASH # NoHash /\ hostClip.origin = "agent"

(***************************************************************************)
(* Failed clipboard writes                                                 *)
(***************************************************************************)
\* C33: when the write of client-pushed content to the host clipboard fails,
\* the last-applied hash is left unchanged and no recording is pending; the
\* hash changes only in the recording step that follows a successful write,
\* and then to the hash of that push.
C33_HashRecordedOnlyAfterWrite ==
    [][/\ (last'.op = "binary" /\ last'.res = "apply_failed")
            => UNCHANGED <<hostClip, LAST_SET_HASH, applyPc, applyArg>>
       /\ (LAST_SET_HASH' # LAST_SET_HASH)
            => (applyPc = "record" /\ LAST_SET_HASH' = applyArg)
       /\ (applyPc' = "record" /\ applyPc # "record")
            => (last'.op = "binary" /\ last'.res = "written"
                /\ hostClip' = AppliedClip(ClientContentOf(last'.ev.clip))
                /\ applyArg' = last'.ev.clip.content_hash)]_vars

C33_Witness ==
    /\ last.op = "binary" /\ last.res = "apply_failed"
    /\ LAST_SET_HASH # NoHash
    /\ LAST_SET_HASH # last.ev.clip.content_hash
    /\ applyPc = "idle"

(***************************************************************************)
(* Clipboard messages to one client                                        *)
(***************************************************************************)
\* C34: a client is never sent two consecutive Clipboard messages with the
\* same content_hash, and last_clipboard_hash is the hash of the last
\* message that was sent (none before the first).
C34_NoRepeatedClipboardMessage ==
    fnOut.pc \in {"run", "done"} =>
        LET sent == fnOut.val.sent IN
        /\ \A i \in 1..(Len(sent) - 1) : sent[i] # sent[i + 1]
        /\ fnOut.val.state.last_clipboard_hash =
              IF sent = <<>> THEN NoHash ELSE sent[Len(sent)]

C34_Witness ==
    /\ fnOut.pc = "done"
    /\ Len(fnOut.val.sent) = 2
    /\ Len(fnIn) = 3
    /\ fnIn[1].content_hash = fnIn[2].content_hash
    /\ fnIn[1].send_ok /\ fnIn[1].encode_ok /\ fnIn[2].send_ok /\ fnIn[2].encode_ok

(***************************************************************************)
(* The last cursor id follows the emitted events                           *)
(***************************************************************************)
\* C35: after every capture tick the last cursor id is the id of the most
\* recently emitted cursor event: it is none before the first event, a tick
\* that emits CursorChanged(id) leaves it at id, a tick that emits
\* CursorHidden leaves it at none, and no other step changes it.
C35_LastIdIsLastEmitted ==
    /\ LAST_CURSOR_ID = NoId
    /\ [][LAST_CURSOR_ID' =
            IF last'.op = "tick" /\ last'.ev.kind = "CursorChanged" THEN last'.ev.id
            ELSE IF last'.op = "tick" /\ last'.ev.kind = "CursorHidden" THEN NoId
            ELSE LAST_CURSOR_ID]_vars

C35_Witness ==
    /\ last.op = "tick" /\ last.ev = CursorHidden
    /\ LAST_CURSOR_ID = NoId
    /\ CURSOR_CACHE # {}

(***************************************************************************)
(* sent_cursor_ids and the writes that succeeded                           *)
(***************************************************************************)
\* C36: in every reachable state each id in a client's sent_cursor_ids has
\* been written successfully to that client's data channel as a CursorData
\* since the client's last accepted DPR update; an id whose write failed is
\* never recorded.
C36_SentIdsWereDelivered ==
    \A c \in Clients : client_state[c].sent_cursor_ids \subseteq dataEpoch[c]

(***************************************************************************)
(* Showing the cursor again after a hide                                   *)
(***************************************************************************)
\* C37: after a CursorHidden was emitted, the first tick that sees the
\* cursor showing again and does not fail (neither the query of the cursor
\* nor its capture) emits CursorChanged, also when the handle and the pixels
\* are those of the cursor that was hidden: it never takes the cursor for
\* unchanged.
C37_ShownAgainIsEmitted ==
    [][(/\ hideEmitted
        /\ last'.op = "tick"
        /\ ~OsHidden
        /\ last'.res \notin {"info_failed", "capture_failed"})
         => last'.ev.kind = "CursorChanged"]_vars

\* the tick after the hide emitted CursorChanged for the id that was hidden
C37_Witness ==
    /\ scn < 0
    /\ last.op = "tick"
    /\ last.ev = CursorChanged(-scn)
    /\ LAST_CURSOR_ID = -scn
    /\ ~hideEmitted

(***************************************************************************)
(* The handlers of one client do not interleave                            *)
(***************************************************************************)
\* a handler is between taking and dropping the guard
InSender == fnOut.val.spc \in {"locked", "send", "insert"}
InHandler == fnOut.val.hpc \in {"locked", "send", "insert"}

\* C38: the broadcast-event handler and the inbound-message handler of one
\* client are never both inside their critical section, and every id in
\* sent_cursor_ids was inserted for a CursorData built with the dpr that is
\* current: none was built for an earlier dpr.
C38_HandlersDoNotInterleave ==
    fnOut.pc = "run" =>
        /\ ~(InSender /\ InHandler)
        /\ \A id \in fnOut.val.sent_cursor_ids : fnOut.val.built[id] = fnOut.val.dpr

\* the message handler waits for the guard the sender task holds, after an
\* accepted update, with an id the sender inserted at the new dpr
C38_Witness ==
    /\ fnOut.pc = "run"
    /\ InSender /\ fnOut.val.hpc = "idle" /\ fnOut.val.hn = 2
    /\ fnOut.val.dpr # DefaultDpr
    /\ \E id \in fnOut.val.sent_cursor_ids : id # fnIn.last_id
    /\ DprAccepted([dpr |-> fnOut.val.dpr], fnIn.dprs[2])

====
